---------------------------- MODULE Spec2Model ----------------------------
(***************************************************************************)
(* A model of FilesSummarizer (src/filesummarizer.py) and of the window    *)
(* that manages its allowed file types (src/manage_filetypes.py).          *)
(*                                                                         *)
(* A path is the sequence of its pathlib parts, <<"/", "p", "a.py">> for   *)
(* /p/a.py.  A tree item id is a natural number (Tk's I001, I002, ...),    *)
(* and 0 is the Treeview's root item "".  The file system is fixed while   *)
(* the program runs.                                                       *)
(***************************************************************************)
EXTENDS Naturals, Sequences, FiniteSets, TLC

VARIABLES
    tree,          \* Treeview items: id -> [parent, path] (path is values[-1])
    file_items,    \* self.file_items: id -> [path, type]
    path_to_id,    \* self.path_to_id: path -> id
    nextId,        \* the Treeview's item serial: the id of the next insert
    status,        \* the status_type of the last update_status, "none" before any
    allowed_file_types,    \* self.allowed_file_types, the set the manager shares
    extension_decisions,   \* self.extension_decisions: extension -> answer
    xml_format_enabled,    \* self.xml_format_enabled
    filepath_enabled,      \* self.filepath_enabled
    settings_file,         \* the settings file: NoFile, or what json.dump wrote
    manager,       \* the ManageFileTypesUI window: whether it is open, its listbox
    ui,            \* the event-loop thread inside handle_drop, or idle
    workers,       \* the _process_dropped_items threads: drop number -> state
    after_queue,   \* the callbacks given to root.after(0, ...), oldest first
    drops,         \* the drop events so far
    prompts,       \* extension -> the "Unknown File Type" dialogs shown for it
    walked,        \* the entries rglob visited and the files get_valid_files returned
    clipboard,     \* what clipboard_append put on the clipboard, "" before any
    copier,        \* the _process_and_copy threads: their selected_paths, oldest first
    copies,        \* the calls of copy_to_clipboard so far
    writes,        \* save_settings in a thread: the settings built and not yet written
    appends,       \* the _process_and_copy threads between clipboard_clear and clipboard_append
    buttons,       \* the state of the Copy, Remove and Clear buttons
    lastOp         \* the handler or step that ran last, with its argument

indexVars == <<tree, file_items, path_to_id, nextId>>

typeVars ==
    <<allowed_file_types, extension_decisions, xml_format_enabled,
      filepath_enabled, settings_file>>

dropVars == <<ui, workers, after_queue, drops, prompts, walked>>

sideVars == <<clipboard, copier, copies, writes, appends, buttons>>

vars == <<indexVars, status, typeVars, manager, dropVars, sideVars, lastOp>>

(***************************************************************************)
(* Bounds.                                                                 *)
(***************************************************************************)
\* Tree items ever inserted in one run.
MaxNodes == 7
\* Items in one Delete-key or Remove-button selection.
MaxSel == 2
\* Drop events in one run.
MaxDrops == 2

(***************************************************************************)
(* Strings (str.lower, str.startswith) and pathlib's name, parent, suffix. *)
(***************************************************************************)
LowerChar(c) ==
    CASE c = "A" -> "a" [] c = "B" -> "b" [] c = "C" -> "c" [] c = "D" -> "d"
      [] c = "E" -> "e" [] c = "F" -> "f" [] c = "G" -> "g" [] c = "H" -> "h"
      [] c = "I" -> "i" [] c = "J" -> "j" [] c = "K" -> "k" [] c = "L" -> "l"
      [] c = "M" -> "m" [] c = "N" -> "n" [] c = "O" -> "o" [] c = "P" -> "p"
      [] c = "Q" -> "q" [] c = "R" -> "r" [] c = "S" -> "s" [] c = "T" -> "t"
      [] c = "U" -> "u" [] c = "V" -> "v" [] c = "W" -> "w" [] c = "X" -> "x"
      [] c = "Y" -> "y" [] c = "Z" -> "z" [] OTHER -> c

RECURSIVE Lower(_)
Lower(s) == IF Len(s) = 0 THEN "" ELSE LowerChar(Head(s)) \o Lower(Tail(s))

StartsWithDot(s) == Len(s) > 0 /\ SubSeq(s, 1, 1) = "."

\* str.rfind('.') as a 1-based index, 0 when there is no dot.
RECURSIVE RFindDot(_, _)
RFindDot(s, i) ==
    IF i = 0 THEN 0
    ELSE IF SubSeq(s, i, i) = "." THEN i ELSE RFindDot(s, i - 1)

\* PurePath.name: the last part, "" for the root.
Name(path) == IF Len(path) <= 1 THEN "" ELSE path[Len(path)]

\* PurePath.parent: the root is its own parent.
Parent(path) == IF Len(path) <= 1 THEN path ELSE SubSeq(path, 1, Len(path) - 1)

\* PurePath.suffix: from the last dot of the name, unless the name starts or
\* ends with it.
Suffix(path) ==
    LET name == Name(path)
        i    == RFindDot(name, Len(name))
    IN  IF 1 < i /\ i < Len(name) THEN SubSeq(name, i, Len(name)) ELSE ""

\* str.strip() of the blanks at both ends.
RECURSIVE LStrip(_)
LStrip(s) == IF Len(s) > 0 /\ Head(s) = " " THEN LStrip(Tail(s)) ELSE s

RECURSIVE RStrip(_)
RStrip(s) ==
    IF Len(s) > 0 /\ SubSeq(s, Len(s), Len(s)) = " "
    THEN RStrip(SubSeq(s, 1, Len(s) - 1)) ELSE s

Strip(s) == RStrip(LStrip(s))

\* The characters of the model's names, in code point order.
CodePoints == " ./0123456789ABCDEFGHIJKLMNOPQRSTUVWXYZ_abcdefghijklmnopqrstuvwxyz"

\* ord(c) as the position of c in CodePoints.
Ord ==
    [c \in {SubSeq(CodePoints, i, i) : i \in 1..Len(CodePoints)} |->
        CHOOSE i \in 1..Len(CodePoints) : SubSeq(CodePoints, i, i) = c]

\* a < b for two str values.
RECURSIVE StrLess(_, _)
StrLess(a, b) ==
    IF Len(b) = 0 THEN FALSE
    ELSE IF Len(a) = 0 THEN TRUE
    ELSE IF Head(a) = Head(b) THEN StrLess(Tail(a), Tail(b))
    ELSE Ord[Head(a)] < Ord[Head(b)]

\* str(path)
RECURSIVE JoinParts(_)
JoinParts(parts) ==
    IF Len(parts) = 0 THEN ""
    ELSE IF Len(parts) = 1 THEN Head(parts)
    ELSE Head(parts) \o "/" \o JoinParts(Tail(parts))

PathStr(path) == IF Len(path) <= 1 THEN "/" ELSE "/" \o JoinParts(Tail(path))

\* sorted(files, key=lambda p: str(p).lower()): a stable insertion sort.
RECURSIVE InsertByKey(_, _)
InsertByKey(sorted, path) ==
    IF Len(sorted) = 0 THEN <<path>>
    ELSE IF StrLess(Lower(PathStr(path)), Lower(PathStr(Head(sorted))))
    THEN <<path>> \o sorted
    ELSE <<Head(sorted)>> \o InsertByKey(Tail(sorted), path)

RECURSIVE SortedByKey(_)
SortedByKey(files) ==
    IF Len(files) = 0 THEN <<>>
    ELSE InsertByKey(SortedByKey(SubSeq(files, 1, Len(files) - 1)), files[Len(files)])

\* sorted(S) for a set of str.
RECURSIVE SortedStrings(_)
SortedStrings(S) ==
    IF S = {} THEN <<>>
    ELSE LET m == CHOOSE x \in S : \A y \in S : x = y \/ StrLess(x, y)
         IN  <<m>> \o SortedStrings(S \ {m})

(***************************************************************************)
(* The file system the paths of a drop point into.                         *)
(***************************************************************************)
\* Every entry, in the order a listing gives them.
Listing ==
    << <<"/">>,
       <<"/", "p">>,
       <<"/", "p", "README.md">>,
       <<"/", "p", "a.py">>,
       <<"/", "p", "c.css">>,
       <<"/", "p", "d.py">>,
       <<"/", "p", "l.lua">>,
       <<"/", "p", "s">>,
       <<"/", "p", "s", "README.md">>,
       <<"/", "p", "s", "m.Foo">>,
       <<"/", "p", "s", "t">>,
       <<"/", "p", "s", "t", "b.ts">>,
       <<"/", "p", "u.py">>,
       <<"/", "q">>,
       <<"/", "q", ".cfg">>,
       <<"/", "q", ".cfg", "h.py">>,
       <<"/", "q", "build">>,
       <<"/", "q", "build", "k">>,
       <<"/", "q", "build", "k", "x.py">>,
       <<"/", "q", "i.PNG">>,
       <<"/", "q", "n.foo">> >>

Dirs ==
    { <<"/">>,
      <<"/", "p">>,
      <<"/", "p", "s">>,
      <<"/", "p", "s", "t">>,
      <<"/", "q">>,
      <<"/", "q", ".cfg">>,
      <<"/", "q", "build">>,
      <<"/", "q", "build", "k">> }

Files == {Listing[i] : i \in 1..Len(Listing)} \ Dirs

IsDir(path) == path \in Dirs

IsFile(path) == path \in Files

\* What path.open("r", encoding="utf-8") and f.read() give for a file: its
\* text, or "binary" for bytes that are no UTF-8 (UnicodeDecodeError), or
\* "denied" for a file that cannot be opened (OSError).
Contents ==
    [f \in Files |->
        CASE f = <<"/", "p", "README.md">>      -> [kind |-> "text", text |-> "r"]
          [] f = <<"/", "p", "a.py">>           -> [kind |-> "text", text |-> "aa"]
          [] f = <<"/", "p", "c.css">>          -> [kind |-> "text", text |-> "c"]
          [] f = <<"/", "p", "d.py">>           -> [kind |-> "denied", text |-> ""]
          [] f = <<"/", "p", "l.lua">>          -> [kind |-> "text", text |-> ""]
          [] f = <<"/", "p", "s", "README.md">> -> [kind |-> "text", text |-> "sss"]
          [] f = <<"/", "p", "s", "m.Foo">>     -> [kind |-> "text", text |-> "m"]
          [] f = <<"/", "p", "u.py">>           -> [kind |-> "binary", text |-> ""]
          [] OTHER                              -> [kind |-> "text", text |-> "t"]]

\* A path that is no file of the file system cannot be opened either.
ReadOf(path) ==
    IF path \in Files THEN Contents[path] ELSE [kind |-> "denied", text |-> ""]

(***************************************************************************)
(* get_file_type_text                                                      *)
(***************************************************************************)
GetFileTypeText(path) ==
    IF Lower(Name(path)) = "readme.md" THEN ".md"
    ELSE IF Lower(Suffix(path)) # "" THEN Lower(Suffix(path)) ELSE "Unknown"

(***************************************************************************)
(* Finite maps and the Treeview.                                           *)
(***************************************************************************)
EmptyMap == [x \in {} |-> 0]

MapPut(f, k, v) == [x \in DOMAIN f \cup {k} |-> IF x = k THEN v ELSE f[x]]

MapDel(f, k) == [x \in DOMAIN f \ {k} |-> f[x]]

\* tree.exists
TreeExists(t, id) == id \in DOMAIN t

\* tree.parent
TreeParent(t, id) == t[id].parent

\* tree.get_children: an item's children, as a set.
TreeChildren(t, id) == {c \in DOMAIN t : t[c].parent = id}

\* Items are inserted at "end" and ids grow, so the children are in id order.
RECURSIVE SortedIds(_)
SortedIds(S) ==
    IF S = {} THEN <<>>
    ELSE LET m == CHOOSE x \in S : \A y \in S : x <= y
         IN  <<m>> \o SortedIds(S \ {m})

\* The items below id, by the parent links.
RECURSIVE SubtreeBelow(_, _)
SubtreeBelow(t, id) ==
    LET kids == TreeChildren(t, id)
    IN  kids \cup UNION {SubtreeBelow(t, c) : c \in kids}

\* tree.delete: the item and everything below it.
TreeDelete(t, id) ==
    [x \in DOMAIN t \ ({id} \cup SubtreeBelow(t, id)) |-> t[x]]

\* tree.insert(parent, "end", values=(symbol, str(path)))
TreeInsert(t, id, parent, path) == MapPut(t, id, [parent |-> parent, path |-> path])

(***************************************************************************)
(* The index: the Treeview and the two dictionaries.                       *)
(***************************************************************************)
Idx ==
    [tree |-> tree, file_items |-> file_items, path_to_id |-> path_to_id,
     nextId |-> nextId, status |-> status]

SetIdx(st) ==
    /\ tree' = st.tree
    /\ file_items' = st.file_items
    /\ path_to_id' = st.path_to_id
    /\ nextId' = st.nextId
    /\ status' = st.status

(***************************************************************************)
(* add_path_to_tree                                                        *)
(***************************************************************************)
\* ReuseNode that leaves current_parent as it was.
ReuseNodeKeepParent(existing_id, current_parent) == current_parent

\* The parent of the next part when the current prefix has a node already.
ReuseNode(existing_id, current_parent) == existing_id

\* The node of one part that has none yet: the file itself, or a folder.
NewItem(current_path, path) ==
    [path |-> current_path,
     type |-> IF current_path = path THEN GetFileTypeText(current_path)
              ELSE "Folder"]

\* The loop over path.parts, from part k on.
RECURSIVE AddParts(_, _, _, _)
AddParts(st, path, k, current_parent) ==
    IF k > Len(path) THEN st
    ELSE
        LET current_path == SubSeq(path, 1, k)
            existing_id  == IF current_path \in DOMAIN st.path_to_id
                            THEN st.path_to_id[current_path] ELSE 0
        IN  IF existing_id # 0 /\ TreeExists(st.tree, existing_id)
            THEN AddParts(st, path, k + 1, ReuseNode(existing_id, current_parent))
            ELSE
                LET new_id == st.nextId
                    st2 == [st EXCEPT
                              !.tree = TreeInsert(@, new_id, current_parent, current_path),
                              !.path_to_id = MapPut(@, current_path, new_id),
                              !.file_items = MapPut(@, new_id, NewItem(current_path, path)),
                              !.nextId = new_id + 1]
                IN  AddParts(st2, path, k + 1, new_id)

AddPathToTree(st, path) ==
    IF path \in DOMAIN st.path_to_id THEN st
    ELSE AddParts(st, path, 1, 0)

(***************************************************************************)
(* get_all_children, cleanup_empty_parents, remove_item                   *)
(***************************************************************************)
RECURSIVE ConcatAll(_)
ConcatAll(seqs) ==
    IF Len(seqs) = 0 THEN <<>> ELSE Head(seqs) \o ConcatAll(Tail(seqs))

\* get_all_children without the recursion.
GetAllChildrenOneLevel(t, item_id) == SortedIds(TreeChildren(t, item_id))

RECURSIVE GetAllChildren(_, _)
GetAllChildren(t, item_id) ==
    LET kids == SortedIds(TreeChildren(t, item_id))
    IN  ConcatAll([i \in 1..Len(kids) |-> <<kids[i]>> \o GetAllChildren(t, kids[i])])

\* ForgetItem leaving the path in path_to_id.
ForgetItemKeepPath(st, id) ==
    IF id \in DOMAIN st.file_items
    THEN [st EXCEPT !.file_items = MapDel(@, id)]
    ELSE st

\* Dropping an item's entries from the two dictionaries.  An item without a
\* file_items entry is looked up by the path in its Treeview values, and
\* tree.item raises for an item the Treeview no longer has.
ForgetItem(st, id) ==
    IF id \in DOMAIN st.file_items
    THEN LET path == st.file_items[id].path
         IN  [st EXCEPT !.file_items = MapDel(@, id),
                        !.path_to_id = IF path \in DOMAIN @ THEN MapDel(@, path) ELSE @]
    ELSE LET folder_path == st.tree[id].path
         IN  [st EXCEPT !.path_to_id =
                 IF folder_path \in DOMAIN @ THEN MapDel(@, folder_path) ELSE @]

ForgetRaises(st, id) == id \notin DOMAIN st.file_items /\ ~TreeExists(st.tree, id)

\* cleanup_empty_parents that does not look at the children left.
RECURSIVE CleanupEmptyParentsAnyway(_, _)
CleanupEmptyParentsAnyway(st, parent_id) ==
    IF parent_id = 0 \/ ~TreeExists(st.tree, parent_id) THEN st
    ELSE LET st2 == ForgetItem(st, parent_id)
             grandparent_id == TreeParent(st.tree, parent_id)
         IN  CleanupEmptyParentsAnyway([st2 EXCEPT !.tree = TreeDelete(@, parent_id)],
                                       grandparent_id)

\* cleanup_empty_parents without the loop.
RECURSIVE CleanupEmptyParentsOneLevel(_, _)
CleanupEmptyParentsOneLevel(st, parent_id) ==
    IF parent_id = 0 \/ ~TreeExists(st.tree, parent_id) THEN st
    ELSE IF TreeChildren(st.tree, parent_id) # {} THEN st
    ELSE LET st2 == ForgetItem(st, parent_id)
         IN  [st2 EXCEPT !.tree = TreeDelete(@, parent_id)]

RECURSIVE CleanupEmptyParents(_, _)
CleanupEmptyParents(st, parent_id) ==
    IF parent_id = 0 \/ ~TreeExists(st.tree, parent_id) THEN st
    ELSE IF TreeChildren(st.tree, parent_id) # {} THEN st
    ELSE LET st2 == ForgetItem(st, parent_id)
             grandparent_id == TreeParent(st.tree, parent_id)
         IN  CleanupEmptyParents([st2 EXCEPT !.tree = TreeDelete(@, parent_id)],
                                 grandparent_id)

\* The loop over items_to_remove, from item k on; raised is set when
\* tree.item raised.
RECURSIVE RemoveLoop(_, _, _)
RemoveLoop(st, items, k) ==
    IF k > Len(items) THEN [st |-> st, raised |-> FALSE]
    ELSE IF ForgetRaises(st, items[k]) THEN [st |-> st, raised |-> TRUE]
    ELSE LET st2 == ForgetItem(st, items[k])
             st3 == IF TreeExists(st2.tree, items[k])
                    THEN [st2 EXCEPT !.tree = TreeDelete(@, items[k])] ELSE st2
         IN  RemoveLoop(st3, items, k + 1)

\* remove_item without the tree.exists guard: tree.parent raises for a missing
\* item, and the handler reports the error.
RemoveItemUnguarded(st, item_id) ==
    IF ~TreeExists(st.tree, item_id)
    THEN [st EXCEPT !.status = "error"]
    ELSE LET parent_id == TreeParent(st.tree, item_id)
             r == RemoveLoop(st, <<item_id>> \o GetAllChildren(st.tree, item_id), 1)
         IN  IF r.raised THEN [r.st EXCEPT !.status = "error"]
             ELSE CleanupEmptyParents(r.st, parent_id)

RemoveItem(st, item_id) ==
    IF ~TreeExists(st.tree, item_id) THEN st
    ELSE LET parent_id == TreeParent(st.tree, item_id)
             r == RemoveLoop(st, <<item_id>> \o GetAllChildren(st.tree, item_id), 1)
         IN  IF r.raised THEN [r.st EXCEPT !.status = "error"]
             ELSE CleanupEmptyParents(r.st, parent_id)

\* remove_item on each item of a selection, in order.
RECURSIVE RemoveEach(_, _, _)
RemoveEach(st, sel, k) ==
    IF k > Len(sel) THEN st ELSE RemoveEach(RemoveItem(st, sel[k]), sel, k + 1)

(***************************************************************************)
(* The file types: the defaults and the blacklist of __init__.             *)
(***************************************************************************)
default_file_types == {".py", ".ts", ".tsx", ".css", ".lua", "readme.md"}

blacklisted_file_types ==
    {".png", ".jpg", ".jpeg", ".gif", ".bmp", ".tif", ".tiff", ".pdf",
     ".doc", ".docx", ".xls", ".xlsx", ".ppt", ".pptx"}

system_dirs ==
    {"node_modules", "__pycache__", "venv", "env", "build", "dist",
     ".git", ".svn", ".hg"}

(***************************************************************************)
(* load_settings and save_settings                                         *)
(***************************************************************************)
\* A settings file: whether it exists, whether json.load reads it, its two
\* toggles, whether its 'allowed_file_types' is a list, and the list. Of a
\* file that does not exist, or does not parse, the other fields mean nothing.
\* No settings file:
NoFile ==
    [exists |-> FALSE, parses |-> TRUE, xml_format |-> TRUE, filepath |-> TRUE,
     iterable |-> TRUE, allowed_file_types |-> {}]

\* The settings file the program can find when it starts.
StartupFiles ==
    {NoFile,
     [exists |-> TRUE, parses |-> TRUE, xml_format |-> TRUE, filepath |-> FALSE,
      iterable |-> TRUE, allowed_file_types |-> {".py", ".png"}]}

\* A file that is not JSON, and the file {"xml_format": false,
\* "allowed_file_types": 5}.
BadFiles ==
    {[exists |-> TRUE, parses |-> FALSE, xml_format |-> TRUE, filepath |-> TRUE,
      iterable |-> TRUE, allowed_file_types |-> {}],
     [exists |-> TRUE, parses |-> TRUE, xml_format |-> FALSE, filepath |-> TRUE,
      iterable |-> FALSE, allowed_file_types |-> {}]}

\* The values __init__ and load_settings leave in memory: json.load raises
\* before anything is set, a value that is no list raises in the for loop,
\* after both toggles were set.
LoadSettings(file) ==
    IF ~file.exists \/ ~file.parses
    THEN [xml_format |-> TRUE, filepath |-> TRUE,
          allowed_file_types |-> default_file_types]
    ELSE IF ~file.iterable
    THEN [xml_format |-> file.xml_format, filepath |-> file.filepath,
          allowed_file_types |-> default_file_types]
    ELSE [xml_format |-> file.xml_format, filepath |-> file.filepath,
          allowed_file_types |-> default_file_types \cup file.allowed_file_types]

\* The dict save_settings builds from the toggles and the allowed set.
Settings(xml, filepath, allowed) ==
    [exists |-> TRUE, parses |-> TRUE, xml_format |-> xml, filepath |-> filepath,
     iterable |-> TRUE, allowed_file_types |-> allowed]

\* What save_settings writes for the given allowed set.
SaveSettings(allowed) == Settings(xml_format_enabled, filepath_enabled, allowed)

(***************************************************************************)
(* _should_skip_path and _is_valid_file                                    *)
(***************************************************************************)
\* The while loop: from current up to the root.
RECURSIVE NamedSystemDir(_)
NamedSystemDir(current) ==
    IF current = Parent(current) THEN FALSE
    ELSE IF Name(current) \in system_dirs THEN TRUE
    ELSE NamedSystemDir(Parent(current))

ShouldSkipPath(path) ==
    \/ StartsWithDot(Name(path))
    \/ NamedSystemDir(path)

\* _is_valid_file with the allowed set looked at before the blacklist.
IsValidFileAllowedFirst(file_path, allowed, decisions) ==
    LET ext_lower  == Lower(Suffix(file_path))
        name_lower == Lower(Name(file_path))
    IN  IF name_lower = "readme.md" THEN "accept"
        ELSE IF ext_lower \in allowed THEN "accept"
        ELSE IF ext_lower \in blacklisted_file_types THEN "reject"
        ELSE IF ext_lower \in DOMAIN decisions
        THEN (IF decisions[ext_lower] THEN "accept" ELSE "reject")
        ELSE "prompt"

\* _is_valid_file up to the dialog: "accept" and "reject" are its returns,
\* "prompt" is the call of messagebox.askyesno.
IsValidFile(file_path, allowed, decisions) ==
    LET ext_lower  == Lower(Suffix(file_path))
        name_lower == Lower(Name(file_path))
    IN  IF ext_lower \in blacklisted_file_types THEN "reject"
        ELSE IF name_lower = "readme.md" THEN "accept"
        ELSE IF ext_lower \in allowed THEN "accept"
        ELSE IF ext_lower \in DOMAIN decisions
        THEN (IF decisions[ext_lower] THEN "accept" ELSE "reject")
        ELSE "prompt"

\* AnswerPrompt without the call of save_settings.
AnswerPromptNoSave(file_path, answer) ==
    LET ext_lower == Lower(Suffix(file_path))
    IN  /\ extension_decisions' = MapPut(extension_decisions, ext_lower, answer)
        /\ allowed_file_types' = IF answer THEN allowed_file_types \cup {ext_lower}
                                 ELSE allowed_file_types
        /\ UNCHANGED <<xml_format_enabled, filepath_enabled, settings_file>>

\* _is_valid_file from the answer on: the cache, the allowed set, the file.
AnswerPrompt(file_path, answer) ==
    LET ext_lower == Lower(Suffix(file_path))
        allowed   == IF answer THEN allowed_file_types \cup {ext_lower}
                     ELSE allowed_file_types
    IN  /\ extension_decisions' = MapPut(extension_decisions, ext_lower, answer)
        /\ allowed_file_types' = allowed
        /\ settings_file' = IF answer THEN SaveSettings(allowed) ELSE settings_file
        /\ UNCHANGED <<xml_format_enabled, filepath_enabled>>

(***************************************************************************)
(* get_valid_files and the loops of handle_drop and _process_dropped_items *)
(***************************************************************************)
IsPrefix(a, b) == Len(a) <= Len(b) /\ SubSeq(b, 1, Len(a)) = a

\* A set of entries in the order the model iterates it: the listing's.
InListingOrder(S) == SelectSeq(Listing, LAMBDA e : e \in S)

\* directory.rglob('*'): every entry below the directory.
Rglob(directory) ==
    SelectSeq(Listing, LAMBDA e : IsPrefix(directory, e) /\ e # directory)

\* The checks one drop makes, in order: for a directory one per rglob entry,
\* for another path one of the path itself.  counting is the loop of
\* handle_drop, which checks only below directories.
RECURSIVE ChecksOf(_, _)
ChecksOf(paths, counting) ==
    IF Len(paths) = 0 THEN <<>>
    ELSE LET path == Head(paths)
             below == Rglob(path)
             here == IF IsDir(path)
                     THEN [i \in 1..Len(below) |-> [path |-> below[i], walk |-> TRUE]]
                     ELSE IF counting THEN <<>>
                     ELSE <<[path |-> path, walk |-> FALSE]>>
         IN  here \o ChecksOf(Tail(paths), counting)

\* The checks from the k-th on, up to the first that opens the dialog or to
\* the end: the files accepted, the entries visited, and where it stopped.
\* allowed and decisions are the allowed set and the cache as the thread finds
\* them.
RECURSIVE Scan(_, _, _, _, _, _, _)
Scan(checks, k, files, visited, yielded, allowed, decisions) ==
    IF k > Len(checks)
    THEN [k |-> k, files |-> files, visited |-> visited, yielded |-> yielded,
          prompt |-> FALSE]
    ELSE LET c    == checks[k]
             seen == IF c.walk THEN visited \cup {c.path} ELSE visited
         IN  IF c.walk /\ ShouldSkipPath(c.path)
             THEN Scan(checks, k + 1, files, seen, yielded, allowed, decisions)
             ELSE IF c.walk /\ ~IsFile(c.path)
             THEN Scan(checks, k + 1, files, seen, yielded, allowed, decisions)
             ELSE LET r == IsValidFile(c.path, allowed, decisions)
                  IN  IF r = "accept"
                      THEN Scan(checks, k + 1, Append(files, c.path), seen,
                                IF c.walk THEN yielded \cup {c.path} ELSE yielded,
                                allowed, decisions)
                      ELSE IF r = "reject"
                      THEN Scan(checks, k + 1, files, seen, yielded, allowed, decisions)
                      ELSE [k |-> k, files |-> files, visited |-> seen,
                            yielded |-> yielded, prompt |-> TRUE]

\* len of what the loop of handle_drop counted: the files below the dropped
\* directories and one for every other path.
TotalFiles(paths, files) ==
    Len(files) + Cardinality({i \in 1..Len(paths) : ~IsDir(paths[i])})

(***************************************************************************)
(* format_content, process_files and the join of _process_and_copy         *)
(***************************************************************************)
\* sep.join(parts) for a list of str.
RECURSIVE JoinStr(_, _)
JoinStr(parts, sep) ==
    IF Len(parts) = 0 THEN ""
    ELSE IF Len(parts) = 1 THEN Head(parts)
    ELSE Head(parts) \o sep \o JoinStr(Tail(parts), sep)

\* format_content; file_path.absolute() of an absolute path is the path.
FormatContent(file_path, content, file_type, xml, filepath) ==
    IF xml
    THEN "<file_info>\n"
            \o (IF filepath THEN "  <path>" \o PathStr(file_path) \o "</path>\n" ELSE "")
            \o "  <type>" \o file_type \o "</type>\n"
            \o "</file_info>\n"
            \o "<content>\n" \o content \o "\n</content>\n"
    ELSE (IF filepath THEN "# " \o PathStr(file_path) \o "\n" ELSE "")
            \o content \o "\n"

\* The locals of process_files before its loop; read and log are the files
\* read and the logger's warnings and errors, in order.
NoContents ==
    [py_contents |-> <<>>, ts_contents |-> <<>>, css_contents |-> <<>>,
     lua_contents |-> <<>>, readme_content |-> "", file_count |-> 0,
     total_characters |-> 0, read |-> <<>>, log |-> <<>>]

\* The routing of one wrapped content into its list.
Route(acc, path, content_with_header) ==
    LET ext_lower  == Lower(Suffix(path))
        name_lower == Lower(Name(path))
    IN  IF name_lower = "readme.md"
        THEN [acc EXCEPT !.readme_content = content_with_header]
        ELSE IF ext_lower = ".py"
        THEN [acc EXCEPT !.py_contents = Append(@, content_with_header)]
        ELSE IF ext_lower \in {".ts", ".tsx"}
        THEN [acc EXCEPT !.ts_contents = Append(@, content_with_header)]
        ELSE IF ext_lower = ".css"
        THEN [acc EXCEPT !.css_contents = Append(@, content_with_header)]
        ELSE IF ext_lower = ".lua"
        THEN [acc EXCEPT !.lua_contents = Append(@, content_with_header)]
        ELSE [acc EXCEPT !.py_contents = Append(@, content_with_header)]

\* ProcessPath that counts the file before it reads it.
ProcessPathCountFirst(acc, path, xml, filepath) ==
    IF IsDir(path) THEN acc
    ELSE LET c == ReadOf(path)
             counted == [acc EXCEPT !.file_count = @ + 1]
         IN  IF c.kind = "binary"
             THEN [counted EXCEPT !.log = Append(@, [level |-> "warning", path |-> path])]
             ELSE IF c.kind = "denied"
             THEN [counted EXCEPT !.log = Append(@, [level |-> "error", path |-> path])]
             ELSE LET routed == Route(counted, path,
                                      FormatContent(path, c.text, GetFileTypeText(path),
                                                    xml, filepath))
                  IN  [routed EXCEPT !.total_characters = @ + Len(c.text),
                                     !.read = Append(@, path)]

\* One pass of the loop of process_files.
ProcessPath(acc, path, xml, filepath) ==
    IF IsDir(path) THEN acc
    ELSE LET c == ReadOf(path)
         IN  IF c.kind = "binary"
             THEN [acc EXCEPT !.log = Append(@, [level |-> "warning", path |-> path])]
             ELSE IF c.kind = "denied"
             THEN [acc EXCEPT !.log = Append(@, [level |-> "error", path |-> path])]
             ELSE LET routed == Route(acc, path,
                                      FormatContent(path, c.text, GetFileTypeText(path),
                                                    xml, filepath))
                  IN  [routed EXCEPT !.file_count = @ + 1,
                                     !.total_characters = @ + Len(c.text),
                                     !.read = Append(@, path)]

RECURSIVE ProcessFrom(_, _, _, _, _)
ProcessFrom(acc, file_paths, k, xml, filepath) ==
    IF k > Len(file_paths) THEN acc
    ELSE ProcessFrom(ProcessPath(acc, file_paths[k], xml, filepath),
                     file_paths, k + 1, xml, filepath)

ProcessFiles(file_paths, xml, filepath) ==
    ProcessFrom(NoContents, file_paths, 1, xml, filepath)

\* filter(None, parts)
NonEmpty(parts) == SelectSeq(parts, LAMBDA part : part # "")

\* The join of _process_and_copy without filter(None, ...).
CombinedContentUnfiltered(r) ==
    JoinStr(<< JoinStr(r.py_contents, "\n\n"), JoinStr(r.ts_contents, "\n\n"),
               JoinStr(r.css_contents, "\n\n"), JoinStr(r.lua_contents, "\n\n"),
               r.readme_content >>, "\n\n")

\* combined_content of _process_and_copy.
CombinedContent(r) ==
    JoinStr(NonEmpty(<< JoinStr(r.py_contents, "\n\n"), JoinStr(r.ts_contents, "\n\n"),
                        JoinStr(r.css_contents, "\n\n"), JoinStr(r.lua_contents, "\n\n"),
                        r.readme_content >>), "\n\n")

(***************************************************************************)
(* The flat-list revision: PythonFilesSummarizer.process_files,            *)
(* process_single_file and the join of process_and_copy                    *)
(* (src/pythonfilesmmerizer_UI.py).                                        *)
(***************************************************************************)
\* Path(__file__).name
ThisFile == "pythonfilesmmerizer_UI.py"

\* f'#{file_path.absolute()}\n###\n{content}\n###\n'
FlatHeader(file_path, content) ==
    "#" \o PathStr(file_path) \o "\n###\n" \o content \o "\n###\n"

NoFlatContents ==
    [py_contents |-> <<>>, readme_content |-> "", file_count |-> 0,
     total_characters |-> 0, read |-> <<>>, log |-> <<>>]

FlatFailed(acc, file_path, c) ==
    [acc EXCEPT !.log = Append(@, [level |-> IF c.kind = "binary" THEN "warning"
                                             ELSE "error",
                                   path |-> file_path])]

ProcessSingleFile(acc, file_path) ==
    LET c == ReadOf(file_path)
    IN  IF Suffix(file_path) = ".py" /\ Name(file_path) # ThisFile
        THEN IF c.kind # "text" THEN FlatFailed(acc, file_path, c)
             ELSE [acc EXCEPT !.py_contents = Append(@, FlatHeader(file_path, c.text)),
                              !.file_count = @ + 1,
                              !.total_characters = @ + Len(c.text),
                              !.read = Append(@, file_path)]
        ELSE IF Lower(Name(file_path)) = "readme.md"
        THEN IF c.kind # "text" THEN FlatFailed(acc, file_path, c)
             ELSE [acc EXCEPT !.readme_content = FlatHeader(file_path, c.text),
                              !.file_count = @ + 1,
                              !.total_characters = @ + Len(FlatHeader(file_path, c.text)),
                              !.read = Append(@, file_path)]
        ELSE acc

\* path.iterdir(): the entries right in the directory.
IterDir(directory) ==
    SelectSeq(Listing, LAMBDA e : Len(e) = Len(directory) + 1 /\ IsPrefix(directory, e))

RECURSIVE FlatEach(_, _, _)
FlatEach(acc, items, k) ==
    IF k > Len(items) THEN acc
    ELSE FlatEach(IF IsFile(items[k]) THEN ProcessSingleFile(acc, items[k]) ELSE acc,
                  items, k + 1)

RECURSIVE FlatFrom(_, _, _)
FlatFrom(acc, file_paths, k) ==
    IF k > Len(file_paths) THEN acc
    ELSE FlatFrom(IF IsDir(file_paths[k])
                  THEN FlatEach(acc, IterDir(file_paths[k]), 1)
                  ELSE ProcessSingleFile(acc, file_paths[k]),
                  file_paths, k + 1)

ProcessFilesFlat(file_paths) == FlatFrom(NoFlatContents, file_paths, 1)

\* combined_content of the flat revision's process_and_copy.
FlatCombinedContent(r) ==
    JoinStr(r.py_contents, "\n\n")
        \o (IF r.readme_content # "" THEN "\n\n" \o r.readme_content ELSE "")

(***************************************************************************)
(* What ran last.                                                          *)
(***************************************************************************)
Op(op, arg) == [op |-> op, arg |-> arg, out |-> <<>>]

RECURSIVE StaleCall(_, _, _)
StaleCall(st, sel, k) ==
    IF k > Len(sel) THEN FALSE
    ELSE \/ ~TreeExists(st.tree, sel[k])
         \/ StaleCall(RemoveItem(st, sel[k]), sel, k + 1)

\* For a removal: the items it was asked to remove with all below them (sub),
\* the ancestors pruned after them (pruned), and whether remove_item was
\* called for an item already gone (stale).
RemovalOp(op, sel, st) ==
    LET sub == UNION {{sel[k]} \cup SubtreeBelow(tree, sel[k]) : k \in 1..Len(sel)}
    IN  [op |-> op, arg |-> sel,
         out |-> [sub |-> sub,
                  pruned |-> (DOMAIN tree \ DOMAIN st.tree) \ sub,
                  stale |-> StaleCall(Idx, sel, 1)]]

(***************************************************************************)
(* The handlers that change the index.                                     *)
(***************************************************************************)
\* The files the index model inserts.
IndexInputs ==
    { <<"/", "p", "a.py">>,
      <<"/", "p", "README.md">>,
      <<"/", "p", "s", "m.Foo">>,
      <<"/", "p", "s", "t", "b.ts">> }

\* tree.selection(): the selected items, in the Treeview's preorder; any 1..n
\* existing items can be selected.
RECURSIVE Keep(_, _)
Keep(seq, S) ==
    IF Len(seq) = 0 THEN <<>>
    ELSE IF Head(seq) \in S THEN <<Head(seq)>> \o Keep(Tail(seq), S)
    ELSE Keep(Tail(seq), S)

Selections(n) ==
    LET pre == GetAllChildren(tree, 0)
    IN  {Keep(pre, S) : S \in {T \in SUBSET DOMAIN tree : Cardinality(T) \in 1..n}}

\* add_path_to_tree(path), as the event loop runs it.
AddPath(path) ==
    LET st == AddPathToTree(Idx, path)
    IN  /\ st.nextId <= MaxNodes + 1
        /\ SetIdx(st)
        /\ lastOp' = Op("add_path_to_tree", path)

\* The context menu's Delete command.
ContextDelete(item_id) ==
    LET st == RemoveItem(Idx, item_id)
    IN  /\ SetIdx(st)
        /\ lastOp' = RemovalOp("remove_item", <<item_id>>, st)

\* handle_delete_key; remove_selected runs the same loop for the Remove button.
HandleDeleteKey(selected_items) ==
    LET st == RemoveEach(Idx, selected_items, 1)
    IN  /\ SetIdx([st EXCEPT !.status = "info"])
        /\ lastOp' = RemovalOp("handle_delete_key", selected_items, st)

ClearAll(answer) ==
    /\ IF answer
       THEN SetIdx([Idx EXCEPT !.tree = EmptyMap, !.file_items = EmptyMap,
                               !.path_to_id = EmptyMap, !.status = "info"])
       ELSE SetIdx(Idx)
    /\ lastOp' = Op("clear_all", answer)

\* An askyesno dialog is up: the window takes no drop and no key meanwhile.
DialogOpen ==
    \/ ui.pc = "prompt"
    \/ \E w \in DOMAIN workers : workers[w].pc = "prompt"

Idle == [pc |-> "idle"]

\* No manager window.
Closed == [open |-> FALSE, listbox |-> <<>>]

(***************************************************************************)
(* The manager of the allowed file types.                                  *)
(***************************************************************************)
\* What the user types into the manager's entry.
EntryTexts == {"PNG "}

\* manage_file_types: ManageFileTypesUI.__init__ fills the listbox.
ManageFileTypes ==
    /\ ~manager.open
    /\ ui.pc = "idle" /\ ~DialogOpen
    /\ manager' = [open |-> TRUE, listbox |-> SortedStrings(allowed_file_types)]
    /\ lastOp' = Op("manage_file_types", <<>>)
    /\ UNCHANGED <<sideVars, indexVars, status, typeVars, dropVars>>

AddNewType(text) ==
    LET stripped == Lower(Strip(text))
        new_type == IF StartsWithDot(stripped) THEN stripped ELSE "." \o stripped
    IN  /\ manager.open
        /\ ui.pc = "idle" /\ ~DialogOpen
        /\ IF stripped # "" /\ new_type \notin allowed_file_types
           THEN /\ allowed_file_types' = allowed_file_types \cup {new_type}
                /\ manager' = [manager EXCEPT !.listbox = Append(@, new_type)]
                /\ settings_file' = SaveSettings(allowed_file_types')
           ELSE UNCHANGED <<allowed_file_types, manager, settings_file>>
        /\ lastOp' = Op("add_new_type", <<>>)
        /\ UNCHANGED <<sideVars, indexVars, status, extension_decisions, xml_format_enabled,
                       filepath_enabled, dropVars>>

\* on_close
ManagerClose ==
    /\ manager.open
    /\ ui.pc = "idle" /\ ~DialogOpen
    /\ settings_file' = SaveSettings(allowed_file_types)
    /\ manager' = Closed
    /\ lastOp' = Op("on_close", <<>>)
    /\ UNCHANGED <<sideVars, indexVars, status, allowed_file_types, extension_decisions,
                   xml_format_enabled, filepath_enabled, dropVars>>

(***************************************************************************)
(* Drops: handle_drop on the event-loop thread, _process_dropped_items on  *)
(* a thread of its own, and the callbacks it hands back with root.after.   *)
(* A thread runs from one askyesno dialog to the next in one step.         *)
(***************************************************************************)
\* The paths one drop can name.
DropRoots ==
    { <<"/", "q">>,
      <<"/", "q", ".cfg">>,
      <<"/", "q", "build", "k", "x.py">>,
      <<"/", "q", "i.PNG">>,
      <<"/", "q", "n.foo">>,
      <<"/", "p", "s", "m.Foo">> }

\* One drop names one of them.
DropInputs == {{r} : r \in DropRoots}

\* The drops next to the manager of the file types: a directory, a file with
\* a blacklisted extension and a file with an unknown one.
TypeDropInputs ==
    { {<<"/", "q">>},
      {<<"/", "q", "i.PNG">>},
      {<<"/", "q", "n.foo">>} }

\* The dialog for the extension of the check a scan stopped at.
Prompted(r, checks) ==
    IF r.prompt
    THEN LET ext == Lower(Suffix(checks[r.k].path))
         IN  MapPut(prompts, ext, (IF ext \in DOMAIN prompts THEN prompts[ext] ELSE 0) + 1)
    ELSE prompts

Walked(r) ==
    [visited |-> walked.visited \cup r.visited, yielded |-> walked.yielded \cup r.yielded]

\* threading.Thread(target=self._process_dropped_items, args=(new_paths, total_files))
Started(paths, total_files) ==
    MapPut(workers, drops + 1,
           [pc |-> "scan", checks |-> ChecksOf(paths, FALSE), k |-> 1,
            files |-> <<>>, total_files |-> total_files])

\* The counting loop of handle_drop from check k on, then the thread's start.
Count(paths, checks, k, files, allowed, decisions) ==
    LET r == Scan(checks, k, files, {}, {files[i] : i \in 1..Len(files)},
                  allowed, decisions)
    IN  /\ prompts' = Prompted(r, checks)
        /\ walked' = Walked(r)
        /\ IF r.prompt
           THEN /\ ui' = [pc |-> "prompt", paths |-> paths, checks |-> checks,
                          k |-> r.k, files |-> r.files]
                /\ UNCHANGED <<workers, drops>>
           ELSE /\ ui' = Idle
                /\ workers' = Started(paths, TotalFiles(paths, r.files))
                /\ drops' = drops + 1

\* NewPaths that takes every dropped path for new.
NewPathsUnfiltered(unique_paths) == unique_paths

\* new_paths = unique_paths - existing_paths
NewPaths(unique_paths) == unique_paths \ DOMAIN path_to_id

HandleDrop(unique_paths) ==
    LET new_paths == InListingOrder(NewPaths(unique_paths))
    IN  /\ ui.pc = "idle"
        /\ ~DialogOpen
        /\ drops < MaxDrops
        /\ IF Len(new_paths) = 0
           THEN /\ status' = "warning"
                /\ drops' = drops + 1
                /\ UNCHANGED <<ui, workers, prompts, walked>>
           ELSE /\ Count(new_paths, ChecksOf(new_paths, TRUE), 1, <<>>,
                         allowed_file_types, extension_decisions)
                /\ UNCHANGED status
        /\ lastOp' = Op("handle_drop", unique_paths)
        /\ UNCHANGED <<sideVars, indexVars, typeVars, manager, after_queue>>

\* The user answers the dialog handle_drop opened; the counting goes on.
UiAnswer(answer) ==
    /\ ui.pc = "prompt"
    /\ AnswerPrompt(ui.checks[ui.k].path, answer)
    /\ Count(ui.paths, ui.checks, ui.k + 1,
             IF answer THEN Append(ui.files, ui.checks[ui.k].path) ELSE ui.files,
             allowed_file_types', extension_decisions')
    /\ lastOp' = [op |-> "_is_valid_file", arg |-> ui.checks[ui.k].path,
                  out |-> <<answer>>]
    /\ UNCHANGED <<sideVars, indexVars, status, manager, after_queue>>

\* The callbacks of a finished thread: one add_path_to_tree per sorted file,
\* then the status message.
Callbacks(files) ==
    LET sorted_files == SortedByKey(files)
    IN  [i \in 1..Len(files) |-> [fn |-> "add_path_to_tree", arg |-> sorted_files[i]]]
            \o <<[fn |-> "update_status", arg |-> "info"]>>

\* add_path_to_tree for each file of a list, one after the other.
RECURSIVE AddEach(_, _, _)
AddEach(st, files, k) ==
    IF k > Len(files) THEN st
    ELSE AddEach(AddPathToTree(st, files[k]), files, k + 1)

\* WorkerScan that puts its files into the tree itself.
WorkerScanDirect(w) ==
    LET me == workers[w]
        r  == Scan(me.checks, me.k, me.files, {}, {},
                   allowed_file_types, extension_decisions)
    IN  /\ me.pc = "scan"
        /\ prompts' = Prompted(r, me.checks)
        /\ walked' = Walked(r)
        /\ IF r.prompt
           THEN /\ workers' = [workers EXCEPT ![w] =
                                  [@ EXCEPT !.pc = "prompt", !.k = r.k, !.files = r.files]]
                /\ UNCHANGED <<after_queue, indexVars, status>>
           ELSE /\ workers' = MapDel(workers, w)
                /\ SetIdx(AddEach(Idx, SortedByKey(r.files), 1))
                /\ after_queue' = Append(after_queue,
                                         [fn |-> "update_status", arg |-> "info"])
        /\ lastOp' = [op |-> "_process_dropped_items",
                       arg |-> {me.checks[i].path : i \in 1..Len(me.checks)},
                       out |-> r.files]
        /\ UNCHANGED <<sideVars, typeVars, manager, ui, drops>>

\* A thread runs on to its next dialog, or to its end.
WorkerScan(w) ==
    \E me \in {workers[w]} :
    \E r \in {Scan(me.checks, me.k, me.files, {}, {},
                   allowed_file_types, extension_decisions)} :
        /\ me.pc = "scan"
        /\ prompts' = Prompted(r, me.checks)
        /\ walked' = Walked(r)
        /\ IF r.prompt
           THEN /\ workers' = [workers EXCEPT ![w] =
                                  [@ EXCEPT !.pc = "prompt", !.k = r.k, !.files = r.files]]
                /\ UNCHANGED after_queue
           ELSE /\ workers' = MapDel(workers, w)
                /\ after_queue' = after_queue \o Callbacks(r.files)
        /\ lastOp' = [op |-> "_process_dropped_items",
                       arg |-> {me.checks[i].path : i \in 1..Len(me.checks)},
                       out |-> r.files]
        /\ UNCHANGED <<sideVars, indexVars, status, typeVars, manager, ui, drops>>

\* The user answers the dialog a thread opened.
WorkerAnswer(w, answer) ==
    LET me == workers[w]
    IN  /\ me.pc = "prompt"
        /\ AnswerPrompt(me.checks[me.k].path, answer)
        /\ workers' = [workers EXCEPT ![w] =
               [@ EXCEPT !.pc = "scan", !.k = me.k + 1,
                         !.files = IF answer THEN Append(me.files, me.checks[me.k].path)
                                   ELSE me.files]]
        /\ walked' = IF answer /\ me.checks[me.k].walk
                      THEN [walked EXCEPT !.yielded = @ \cup {me.checks[me.k].path}]
                      ELSE walked
        /\ lastOp' = [op |-> "_is_valid_file", arg |-> me.checks[me.k].path,
                      out |-> <<answer>>]
        /\ UNCHANGED <<sideVars, indexVars, status, manager, ui, after_queue, drops, prompts>>

\* The event loop runs the oldest callback.
RunAfter ==
    /\ Len(after_queue) > 0
    /\ LET cb == Head(after_queue)
       IN  IF cb.fn = "add_path_to_tree"
           THEN /\ SetIdx(AddPathToTree(Idx, cb.arg))
                /\ lastOp' = [op |-> "add_path_to_tree", arg |-> cb.arg,
                              out |-> IF cb.arg \in DOMAIN path_to_id
                                      THEN <<"tracked">> ELSE <<>>]
                /\ UNCHANGED buttons
           ELSE IF cb.fn \in {"show_error", "show_warning"}
           THEN /\ lastOp' = Op(cb.fn, cb.arg)
                /\ UNCHANGED <<indexVars, status, buttons>>
           ELSE IF cb.fn = "toggle_buttons"
           THEN /\ buttons' = cb.arg
                /\ lastOp' = Op("toggle_buttons", cb.arg)
                /\ UNCHANGED <<indexVars, status>>
           ELSE /\ status' = cb.arg
                /\ lastOp' = Op("update_status", <<>>)
                /\ UNCHANGED <<indexVars, buttons>>
    /\ after_queue' = Tail(after_queue)
    /\ UNCHANGED <<clipboard, copier, copies, writes, appends, typeVars, manager, ui,
                   workers, drops, prompts, walked>>

(***************************************************************************)
(* The copy: copy_to_clipboard on the event-loop thread and                *)
(* _process_and_copy on a thread of its own.                               *)
(***************************************************************************)
\* The copies of one run, at most.
MaxCopies == 2

\* [item_data['path'] for item_data in self.file_items.values()]: a dict
\* keeps the order its keys were inserted in, and ids grow.
AllPaths ==
    LET ids == SortedIds(DOMAIN file_items)
    IN  [i \in 1..Len(ids) |-> file_items[ids[i]].path]

\* copy_to_clipboard: the Copy button, or Ctrl-C, which stays bound while the
\* buttons are disabled.
CopyToClipboard ==
    /\ ui.pc = "idle" /\ ~DialogOpen
    /\ copies < MaxCopies
    /\ copies' = copies + 1
    /\ IF DOMAIN file_items = {}
       THEN /\ status' = "error"
            /\ UNCHANGED <<copier, buttons>>
       ELSE /\ status' = "info"
            /\ buttons' = "disabled"
            /\ copier' = Append(copier, AllPaths)
    /\ lastOp' = Op("copy_to_clipboard", <<>>)
    /\ UNCHANGED <<indexVars, typeVars, manager, dropVars, clipboard, writes, appends>>

\* The show_error callbacks of process_files, one per file it could not read.
ErrorCallbacks(log) ==
    [i \in 1..Len(log) |-> [fn |-> "show_error", arg |-> log[i].path]]

\* CopyCallbacks that leaves the buttons as they are when nothing was copied.
CopyCallbacksNoEnable(combined_content) ==
    IF combined_content # ""
    THEN <<[fn |-> "update_status", arg |-> "info"],
           [fn |-> "toggle_buttons", arg |-> "normal"]>>
    ELSE <<[fn |-> "show_warning", arg |-> <<>>],
           [fn |-> "update_status", arg |-> "warning"]>>

\* The callbacks _process_and_copy queues when process_files has returned
\* and the clipboard, if there was anything to copy, is written.
CopyCallbacks(combined_content) ==
    (IF combined_content # ""
     THEN <<[fn |-> "update_status", arg |-> "info"]>>
     ELSE <<[fn |-> "show_warning", arg |-> <<>>],
            [fn |-> "update_status", arg |-> "warning"]>>)
        \o <<[fn |-> "toggle_buttons", arg |-> "normal"]>>

\* _process_and_copy(selected_paths) of the thread started i-th of those
\* still running, when nothing raises and no other thread copies meanwhile.
ProcessAndCopy(i) ==
    LET selected_paths   == copier[i]
        r                == ProcessFiles(selected_paths, xml_format_enabled,
                                         filepath_enabled)
        combined_content == CombinedContent(r)
    IN  /\ copier' = SubSeq(copier, 1, i - 1) \o SubSeq(copier, i + 1, Len(copier))
        /\ clipboard' = IF combined_content # "" THEN combined_content ELSE clipboard
        /\ after_queue' = after_queue \o ErrorCallbacks(r.log)
               \o CopyCallbacks(combined_content)
        /\ lastOp' = [op |-> "_process_and_copy", arg |-> selected_paths,
                      out |-> [result |-> r, combined_content |-> combined_content,
                               xml |-> xml_format_enabled,
                               filepath |-> filepath_enabled]]
        /\ UNCHANGED <<indexVars, status, typeVars, manager, ui, workers, drops,
                       prompts, walked, copies, writes, appends, buttons>>

\* The callbacks of the except clauses of _process_and_copy.
FailureCallbacks ==
    <<[fn |-> "show_error", arg |-> <<>>],
      [fn |-> "update_status", arg |-> "error"],
      [fn |-> "toggle_buttons", arg |-> "normal"]>>

\* What can happen to one thread of _process_and_copy: nothing raises,
\* process_files raises, or the clipboard cannot be written.
Outcomes == {"ok", "raise", "clipboard_fails"}

\* A thread of _process_and_copy up to its clipboard_clear(): other threads
\* and the event loop run before its clipboard_append.
ProcessBatch(i, outcome) ==
    \E selected_paths \in {copier[i]} :
    \E r \in {ProcessFiles(selected_paths, xml_format_enabled, filepath_enabled)} :
    \E combined_content \in {CombinedContent(r)} :
    LET done             == [op |-> "_process_and_copy", arg |-> selected_paths,
                             out |-> [result |-> r,
                                      combined_content |-> combined_content,
                                      xml |-> xml_format_enabled,
                                      filepath |-> filepath_enabled]]
    IN  /\ copier' = SubSeq(copier, 1, i - 1) \o SubSeq(copier, i + 1, Len(copier))
        /\ IF outcome = "raise"
           THEN /\ after_queue' = after_queue \o FailureCallbacks
                /\ lastOp' = Op("_process_and_copy.except", selected_paths)
                /\ UNCHANGED <<clipboard, appends>>
           ELSE IF combined_content = ""
           THEN /\ after_queue' = after_queue \o ErrorCallbacks(r.log)
                       \o CopyCallbacks(combined_content)
                /\ lastOp' = done
                /\ UNCHANGED <<clipboard, appends>>
           ELSE IF outcome = "clipboard_fails"
           THEN /\ after_queue' = after_queue \o ErrorCallbacks(r.log)
                       \o FailureCallbacks
                /\ lastOp' = Op("_process_and_copy.except", selected_paths)
                /\ UNCHANGED <<clipboard, appends>>
           ELSE /\ clipboard' = ""
                /\ appends' = Append(appends, done)
                /\ after_queue' = after_queue \o ErrorCallbacks(r.log)
                /\ lastOp' = Op("clipboard_clear", selected_paths)
        /\ UNCHANGED <<indexVars, status, typeVars, manager, ui, workers, drops,
                       prompts, walked, copies, writes, buttons>>

\* The thread's clipboard_append(combined_content) and the rest of
\* _process_and_copy.
ClipboardAppend(j) ==
    /\ clipboard' = clipboard \o appends[j].out.combined_content
    /\ appends' = SubSeq(appends, 1, j - 1) \o SubSeq(appends, j + 1, Len(appends))
    /\ after_queue' = after_queue \o CopyCallbacks(appends[j].out.combined_content)
    /\ lastOp' = appends[j]
    /\ UNCHANGED <<indexVars, status, typeVars, manager, ui, workers, drops,
                   prompts, walked, copier, copies, writes, buttons>>

\* _process_and_copy(selected_paths) of the flat-list revision, which sets the
\* status itself.
ProcessAndCopyFlat(i) ==
    LET selected_paths   == copier[i]
        r                == ProcessFilesFlat(selected_paths)
        combined_content == FlatCombinedContent(r)
    IN  /\ copier' = SubSeq(copier, 1, i - 1) \o SubSeq(copier, i + 1, Len(copier))
        /\ clipboard' = IF combined_content # "" THEN combined_content ELSE clipboard
        /\ status' = IF combined_content # "" THEN "info" ELSE "warning"
        /\ lastOp' = [op |-> "flat._process_and_copy", arg |-> selected_paths,
                      out |-> [result |-> r, combined_content |-> combined_content]]
        /\ buttons' = "normal"
        /\ UNCHANGED <<indexVars, typeVars, manager, dropVars, copies, writes, appends>>

(***************************************************************************)
(* The toggles, the rest of the manager, the end of a run, and             *)
(* save_settings in a drop thread, which builds its dict and writes it     *)
(* while the event loop runs on.                                           *)
(***************************************************************************)
\* The main window takes a click: no dialog is up and the manager, which
\* holds the grab, is closed.
MainWindowFree == ui.pc = "idle" /\ ~DialogOpen /\ ~manager.open

\* toggle_xml_format, after the Checkbutton has flipped its variable.
ToggleXmlFormat ==
    /\ MainWindowFree
    /\ xml_format_enabled' = ~xml_format_enabled
    /\ status' = "info"
    /\ settings_file' = Settings(xml_format_enabled', filepath_enabled,
                                 allowed_file_types)
    /\ lastOp' = Op("toggle_xml_format", <<>>)
    /\ UNCHANGED <<sideVars, indexVars, allowed_file_types, extension_decisions,
                   filepath_enabled, manager, dropVars>>

\* toggle_filepath, after the Checkbutton has flipped its variable.
ToggleFilepath ==
    /\ MainWindowFree
    /\ filepath_enabled' = ~filepath_enabled
    /\ status' = "info"
    /\ settings_file' = Settings(xml_format_enabled, filepath_enabled',
                                 allowed_file_types)
    /\ lastOp' = Op("toggle_filepath", <<>>)
    /\ UNCHANGED <<sideVars, indexVars, allowed_file_types, extension_decisions,
                   xml_format_enabled, manager, dropVars>>

\* The file types the model selects in the manager's listbox.
RemovableTypes == {".lua", ".png"}

\* listbox.curselection(): any of the lines holding such a type, or none.
Curselections ==
    SUBSET {i \in 1..Len(manager.listbox) : manager.listbox[i] \in RemovableTypes}

\* The listbox after listbox.delete(idx) for each selected idx.
RECURSIVE DeleteLines(_, _, _)
DeleteLines(listbox, selection, i) ==
    IF i > Len(listbox) THEN <<>>
    ELSE (IF i \in selection THEN <<>> ELSE <<listbox[i]>>)
             \o DeleteLines(listbox, selection, i + 1)

RemoveSelectedTypes(selection) ==
    /\ manager.open
    /\ ui.pc = "idle" /\ ~DialogOpen
    /\ IF selection = {}
       THEN UNCHANGED <<allowed_file_types, manager, settings_file>>
       ELSE /\ allowed_file_types' =
                   allowed_file_types \ {manager.listbox[i] : i \in selection}
            /\ manager' = [manager EXCEPT !.listbox = DeleteLines(@, selection, 1)]
            /\ settings_file' = SaveSettings(allowed_file_types')
    /\ lastOp' = Op("remove_selected_types", selection)
    /\ UNCHANGED <<sideVars, indexVars, status, extension_decisions, xml_format_enabled,
                   filepath_enabled, dropVars>>

\* reset_defaults without the clear() of the set.
ResetDefaultsNoClear ==
    /\ manager.open
    /\ ui.pc = "idle" /\ ~DialogOpen
    /\ allowed_file_types' = allowed_file_types \cup default_file_types
    /\ manager' = [manager EXCEPT !.listbox = SortedStrings(allowed_file_types')]
    /\ settings_file' = SaveSettings(allowed_file_types')
    /\ lastOp' = Op("reset_defaults", <<>>)
    /\ UNCHANGED <<sideVars, indexVars, status, extension_decisions, xml_format_enabled,
                   filepath_enabled, dropVars>>

ResetDefaults ==
    /\ manager.open
    /\ ui.pc = "idle" /\ ~DialogOpen
    /\ allowed_file_types' = default_file_types
    /\ manager' = [manager EXCEPT !.listbox = SortedStrings(default_file_types)]
    /\ settings_file' = SaveSettings(default_file_types)
    /\ lastOp' = Op("reset_defaults", <<>>)
    /\ UNCHANGED <<sideVars, indexVars, status, extension_decisions, xml_format_enabled,
                   filepath_enabled, dropVars>>

\* on_closing: save_settings, then root.destroy() ends the run and its daemon
\* threads. The next state is the next run after its __init__, which finds the
\* file this run left.
OnClosing ==
    LET file   == SaveSettings(allowed_file_types)
        loaded == LoadSettings(file)
    IN  /\ MainWindowFree
        /\ settings_file' = file
        /\ SetIdx([tree |-> EmptyMap, file_items |-> EmptyMap, path_to_id |-> EmptyMap,
                   nextId |-> 1, status |-> "none"])
        /\ allowed_file_types' = loaded.allowed_file_types
        /\ extension_decisions' = EmptyMap
        /\ xml_format_enabled' = loaded.xml_format
        /\ filepath_enabled' = loaded.filepath
        /\ manager' = Closed
        /\ ui' = Idle
        /\ workers' = EmptyMap
        /\ after_queue' = <<>>
        /\ drops' = 0
        /\ prompts' = EmptyMap
        /\ walked' = [visited |-> {}, yielded |-> {}]
        /\ clipboard' = ""
        /\ copier' = <<>>
        /\ copies' = 0
        /\ writes' = <<>>
        /\ appends' = <<>>
        /\ buttons' = "normal"
        /\ lastOp' = [op |-> "on_closing", arg |-> <<>>,
                      out |-> [xml_format |-> xml_format_enabled,
                               filepath |-> filepath_enabled,
                               allowed_file_types |-> allowed_file_types]]

\* The user answers the dialog a thread opened; on 'yes' the thread caches the
\* answer, adds the extension and, in save_settings, builds the dict to write.
WorkerAnswerBegin(w, answer) ==
    LET me        == workers[w]
        file_path == me.checks[me.k].path
        ext_lower == Lower(Suffix(file_path))
    IN  /\ me.pc = "prompt"
        /\ extension_decisions' = MapPut(extension_decisions, ext_lower, answer)
        /\ IF answer
           THEN /\ allowed_file_types' = allowed_file_types \cup {ext_lower}
                /\ writes' = Append(writes, [w |-> w,
                                             settings |-> SaveSettings(allowed_file_types')])
                /\ workers' = [workers EXCEPT ![w] = [@ EXCEPT !.pc = "save"]]
                /\ UNCHANGED walked
           ELSE /\ workers' = [workers EXCEPT ![w] = [@ EXCEPT !.pc = "scan", !.k = me.k + 1]]
                /\ UNCHANGED <<allowed_file_types, writes, walked>>
        /\ lastOp' = [op |-> "askyesno", arg |-> file_path, out |-> <<answer>>]
        /\ UNCHANGED <<indexVars, status, xml_format_enabled, filepath_enabled,
                       settings_file, manager, ui, after_queue, drops, prompts,
                       clipboard, copier, copies, appends, buttons>>

\* The thread writes the dict it built; save_settings and _is_valid_file
\* return and the thread goes on with its next path.
WorkerSave(i) ==
    LET w  == writes[i].w
        me == workers[w]
    IN  /\ settings_file' = writes[i].settings
        /\ writes' = SubSeq(writes, 1, i - 1) \o SubSeq(writes, i + 1, Len(writes))
        /\ workers' = [workers EXCEPT ![w] =
               [@ EXCEPT !.pc = "scan", !.k = me.k + 1,
                         !.files = Append(me.files, me.checks[me.k].path)]]
        /\ walked' = IF me.checks[me.k].walk
                      THEN [walked EXCEPT !.yielded = @ \cup {me.checks[me.k].path}]
                      ELSE walked
        /\ lastOp' = [op |-> "_is_valid_file", arg |-> me.checks[me.k].path,
                      out |-> <<TRUE>>]
        /\ UNCHANGED <<indexVars, status, allowed_file_types, extension_decisions,
                       xml_format_enabled, filepath_enabled, manager, ui, after_queue,
                       drops, prompts, clipboard, copier, copies, appends, buttons>>

(***************************************************************************)
(* The specifications.                                                     *)
(***************************************************************************)
\* __init__ with the given settings file.
Constructed(file) ==
    /\ tree = EmptyMap
    /\ file_items = EmptyMap
    /\ path_to_id = EmptyMap
    /\ nextId = 1
    /\ status = "none"
    /\ allowed_file_types = LoadSettings(file).allowed_file_types
    /\ extension_decisions = EmptyMap
    /\ xml_format_enabled = LoadSettings(file).xml_format
    /\ filepath_enabled = LoadSettings(file).filepath
    /\ settings_file = file
    /\ manager = Closed
    /\ ui = Idle
    /\ workers = EmptyMap
    /\ after_queue = <<>>
    /\ drops = 0
    /\ prompts = EmptyMap
    /\ walked = [visited |-> {}, yielded |-> {}]
    /\ clipboard = ""
    /\ writes = <<>>
    /\ appends = <<>>
    /\ lastOp = Op("__init__", <<>>)

\* No copy is under way when the program starts.
InitWith(file) ==
    /\ Constructed(file)
    /\ copier = <<>>
    /\ copies = 0
    /\ buttons = "normal"

InitIndex == InitWith(NoFile)

NextIndex ==
    /\ \/ \E path \in IndexInputs : AddPath(path)
       \/ \E item_id \in DOMAIN tree : ContextDelete(item_id)
       \/ \E sel \in Selections(MaxSel) : HandleDeleteKey(sel)
       \/ \E answer \in BOOLEAN : ClearAll(answer)
    /\ UNCHANGED <<sideVars, typeVars, manager, dropVars>>

\* The index under any sequence of insertions, removals and clears.
SpecIndex == InitIndex /\ [][NextIndex]_vars

InitDrop == \E file \in StartupFiles : InitWith(file)

NextDrop ==
    \/ \E unique_paths \in DropInputs : HandleDrop(unique_paths)
    \/ \E answer \in BOOLEAN : UiAnswer(answer)
    \/ \E w \in DOMAIN workers : WorkerScan(w)
    \/ \E w \in DOMAIN workers, answer \in BOOLEAN : WorkerAnswer(w, answer)
    \/ RunAfter

\* Drops, their threads, their dialogs and their callbacks.
SpecDrop == InitDrop /\ [][NextDrop]_vars

NextTypes ==
    \/ \E unique_paths \in TypeDropInputs : HandleDrop(unique_paths)
    \/ \E answer \in BOOLEAN : UiAnswer(answer)
    \/ \E w \in DOMAIN workers : WorkerScan(w)
    \/ \E w \in DOMAIN workers, answer \in BOOLEAN : WorkerAnswer(w, answer)
    \/ RunAfter
    \/ ManageFileTypes
    \/ \E text \in EntryTexts : AddNewType(text)
    \/ ManagerClose

\* Drops next to the manager of the allowed file types.
SpecTypes == InitDrop /\ [][NextTypes]_vars

\* The settings files the program can find when it starts.
SettingsFiles == StartupFiles \cup BadFiles

\* The one drop of the settings model: a file whose type brings the dialog.
SettingsDropInputs == { {<<"/", "q", "n.foo">>} }

\* The drops of one run in the settings model, at most.
MaxSettingsDrops == 1

InitSettings == \E file \in SettingsFiles : InitWith(file)

NextSettings ==
    \/ ToggleXmlFormat
    \/ ToggleFilepath
    \/ ManageFileTypes
    \/ \E text \in EntryTexts : AddNewType(text)
    \/ \E selection \in Curselections : RemoveSelectedTypes(selection)
    \/ ResetDefaults
    \/ ManagerClose
    \/ OnClosing
    \/ /\ drops < MaxSettingsDrops
       /\ \E unique_paths \in SettingsDropInputs : HandleDrop(unique_paths)
    \/ \E w \in DOMAIN workers : WorkerScan(w)
    \/ \E w \in DOMAIN workers, answer \in BOOLEAN : WorkerAnswerBegin(w, answer)
    \/ \E i \in 1..Len(writes) : WorkerSave(i)
    \/ RunAfter

\* The settings in memory and on disk under every handler that touches them.
SpecSettings == InitSettings /\ [][NextSettings]_vars

\* The paths the copy model drops: none of them brings a dialog.
CopyDropInputs ==
    { {<<"/", "p", "a.py">>},
      {<<"/", "p", "s", "t", "b.ts">>},
      {<<"/", "p", "s", "t">>} }

NextCopy ==
    \/ \E unique_paths \in CopyDropInputs : HandleDrop(unique_paths)
    \/ \E w \in DOMAIN workers : WorkerScan(w)
    \/ RunAfter
    \/ /\ \E item_id \in DOMAIN tree : ContextDelete(item_id)
       /\ UNCHANGED <<sideVars, typeVars, manager, dropVars>>
    \/ CopyToClipboard
    \/ \E i \in 1..Len(copier) : ProcessAndCopy(i)

\* Drops, removals and copies in any order.
SpecCopy == InitIndex /\ [][NextCopy]_vars

\* The drops of the batch model: a file that can be read and one that
\* cannot be opened.
BatchDropInputs ==
    { {<<"/", "p", "a.py">>},
      {<<"/", "p", "d.py">>} }

NextBatch ==
    \/ \E unique_paths \in BatchDropInputs : HandleDrop(unique_paths)
    \/ \E w \in DOMAIN workers : WorkerScan(w)
    \/ RunAfter
    \/ CopyToClipboard
    \/ \E i \in 1..Len(copier), outcome \in Outcomes : ProcessBatch(i, outcome)
    \/ \E j \in 1..Len(appends) : ClipboardAppend(j)

\* Drops and copies, with the threads of the copies step by step.
SpecBatch == InitIndex /\ [][NextBatch]_vars

\* The selections of the copy batches under way: one batch, or two started
\* with Ctrl+C one after the other.
BatchesUnderWay ==
    { << <<<<"/", "p", "a.py">>>> >>,
      << <<<<"/", "p", "d.py">>>> >>,
      << <<<<"/", "p", "a.py">>, <<"/", "p", "d.py">>>> >>,
      << <<<<"/", "p", "a.py">>>>, <<<<"/", "p", "d.py">>>> >>,
      << <<<<"/", "p", "d.py">>>>, <<<<"/", "p", "u.py">>>> >> }

\* copy_to_clipboard has started the threads and disabled the buttons.
InitBatchLive ==
    /\ \E xml, filepath \in BOOLEAN :
           Constructed(Settings(xml, filepath, {}))
    /\ \E batches \in BatchesUnderWay : copier = batches /\ copies = Len(batches)
    /\ buttons = "disabled"

NextBatchLive ==
    \/ \E i \in 1..Len(copier), outcome \in Outcomes : ProcessBatch(i, outcome)
    \/ \E j \in 1..Len(appends) : ClipboardAppend(j)
    \/ RunAfter

\* The batches under way, where every thread runs on (its reads return) and
\* the event loop keeps running its callbacks.
SpecBatchLive ==
    /\ InitBatchLive
    /\ [][NextBatchLive]_vars
    /\ WF_vars(\E i \in 1..Len(copier), outcome \in Outcomes : ProcessBatch(i, outcome))
    /\ WF_vars(\E j \in 1..Len(appends) : ClipboardAppend(j))
    /\ WF_vars(RunAfter)

NextClear ==
    \/ \E unique_paths \in CopyDropInputs : HandleDrop(unique_paths)
    \/ \E w \in DOMAIN workers : WorkerScan(w)
    \/ RunAfter
    \/ /\ \E answer \in BOOLEAN : ClearAll(answer)
       /\ UNCHANGED <<sideVars, typeVars, manager, dropVars>>

\* Drops, their threads and their callbacks, and clear_all at any moment.
SpecClear == InitIndex /\ [][NextClear]_vars

\* Two files of one extension that is not allowed at the start.
FilterDropInputs ==
    { {<<"/", "q", "n.foo">>},
      {<<"/", "p", "s", "m.Foo">>} }

NextFilter ==
    \/ \E unique_paths \in FilterDropInputs : HandleDrop(unique_paths)
    \/ \E w \in DOMAIN workers : WorkerScan(w)
    \/ \E w \in DOMAIN workers, answer \in BOOLEAN : WorkerAnswer(w, answer)
    \/ RunAfter
    \/ ManageFileTypes
    \/ \E text \in EntryTexts : AddNewType(text)
    \/ \E selection \in Curselections : RemoveSelectedTypes(selection)
    \/ ResetDefaults
    \/ ManagerClose

\* Drops of single files, their dialogs, and the manager of the allowed types.
SpecFilter == InitDrop /\ [][NextFilter]_vars

\* What the user types into the manager's entry: a new type, types that may
\* be present, and nothing.
ManagerEntryTexts == {"PNG ", "lua", ".foo", ""}

NextManager ==
    \/ ManageFileTypes
    \/ \E text \in ManagerEntryTexts : AddNewType(text)
    \/ \E selection \in Curselections : RemoveSelectedTypes(selection)
    \/ ResetDefaults
    \/ ManagerClose

\* The manager of the allowed types, opened and closed, under its handlers.
SpecManager == InitDrop /\ [][NextManager]_vars

\* The paths in the lists handed to process_files.
ProcessInputs ==
    { <<"/", "p", "README.md">>,
      <<"/", "p", "a.py">>,
      <<"/", "p", "c.css">>,
      <<"/", "p", "d.py">>,
      <<"/", "p", "l.lua">>,
      <<"/", "p", "s">>,
      <<"/", "p", "s", "README.md">>,
      <<"/", "p", "s", "m.Foo">>,
      <<"/", "p", "s", "t", "b.ts">>,
      <<"/", "p", "u.py">> }

\* The length of such a list, at most.
MaxPaths == 3

\* The lists come from the keys or the values of file_items: no path twice.
PathLists ==
    UNION {{l \in [1..n -> ProcessInputs] : \A i, j \in 1..n : l[i] = l[j] => i = j} :
           n \in 1..MaxPaths}

\* One thread about to copy a list of paths, under any toggles.
InitProcess ==
    /\ \E xml, filepath \in BOOLEAN :
           Constructed(Settings(xml, filepath, {}))
    /\ \E selected_paths \in PathLists : copier = <<selected_paths>>
    /\ copies = 1
    /\ buttons = "disabled"

NextProcess ==
    \/ \E i \in 1..Len(copier) : ProcessAndCopy(i)
    \/ \E i \in 1..Len(copier) : ProcessAndCopyFlat(i)
    \/ RunAfter

\* process_files and the join of both revisions on any list of paths.
SpecProcess == InitProcess /\ [][NextProcess]_vars

(***************************************************************************)
(* Properties of the index.                                                *)
(***************************************************************************)
IsFileNode(id) == file_items[id].type # "Folder"

IsRemoval(o) == o.op \in {"remove_item", "handle_delete_key"}

\* C1: every File of the index has each proper prefix of its path in
\* path_to_id as a Folder node, and its tree parent is the node of its
\* parent path.
C1_AncestorFolders ==
    \A id \in DOMAIN file_items :
        IsFileNode(id) =>
            LET path == file_items[id].path
            IN  /\ \A k \in 1..(Len(path) - 1) :
                       LET prefix == SubSeq(path, 1, k)
                       IN  /\ prefix \in DOMAIN path_to_id
                           /\ path_to_id[prefix] \in DOMAIN file_items
                           /\ file_items[path_to_id[prefix]].type = "Folder"
                /\ TreeExists(tree, id)
                /\ Parent(path) \in DOMAIN path_to_id
                /\ TreeParent(tree, id) = path_to_id[Parent(path)]

\* A file three folders deep was inserted after an earlier removal.
C1_Witness ==
    /\ lastOp.op = "add_path_to_tree"
    /\ Len(lastOp.arg) >= 5
    /\ lastOp.arg \in DOMAIN path_to_id
    /\ Cardinality(DOMAIN tree) < nextId - 1

NoEmptyFolder ==
    \A id \in DOMAIN file_items :
        file_items[id].type = "Folder" => TreeChildren(tree, id) # {}

\* The items a removal was asked to remove, with everything below them.
Removed(o) ==
    UNION {({o.arg[k]} \cup SubtreeBelow(tree, o.arg[k])) \cap DOMAIN tree :
              k \in 1..Len(o.arg)}

\* After a removal an item outside the removed subtrees is left exactly when
\* it is a File, or still has a File below it.
PruneStops ==
    IsRemoval(lastOp') =>
        LET R == Removed(lastOp')
        IN  \A a \in DOMAIN tree \ R :
                TreeExists(tree', a) <=>
                    \E d \in ({a} \cup SubtreeBelow(tree, a)) \ R : IsFileNode(d)

\* C2: after every operation no Folder of the index is without children, and
\* a removal prunes the ancestors up to the first one that keeps a child.
C2_NoEmptyFolder == [](NoEmptyFolder) /\ [][PruneStops]_vars

\* Removing one item pruned a chain of two folders and stopped below the top.
C2_Witness ==
    /\ lastOp.op = "remove_item"
    /\ Cardinality(lastOp.out.pruned) >= 2
    /\ DOMAIN tree # {}

\* C3: file_items and the tree hold the same ids, path_to_id is one-to-one
\* onto them, and it maps each item's path back to the item.
C3_IndexesConsistent ==
    /\ DOMAIN file_items = DOMAIN tree
    /\ \A p, q \in DOMAIN path_to_id : path_to_id[p] = path_to_id[q] => p = q
    /\ {path_to_id[p] : p \in DOMAIN path_to_id} = DOMAIN file_items
    /\ \A id \in DOMAIN file_items :
           /\ file_items[id].path \in DOMAIN path_to_id
           /\ path_to_id[file_items[id].path] = id

\* A removal pruned an ancestor and left other items.
C3_Witness ==
    /\ IsRemoval(lastOp)
    /\ lastOp.out.pruned # {}
    /\ DOMAIN tree # {}

\* C4: remove_item on an existing item leaves neither it nor anything below
\* it in the tree, in file_items or in path_to_id.
C4_SubtreeGone ==
    [][(lastOp'.op = "remove_item" /\ TreeExists(tree, lastOp'.arg[1])) =>
          \A d \in {lastOp'.arg[1]} \cup SubtreeBelow(tree, lastOp'.arg[1]) :
              /\ ~TreeExists(tree', d)
              /\ d \notin DOMAIN file_items'
              /\ tree[d].path \notin DOMAIN path_to_id'
              /\ \A p \in DOMAIN path_to_id' : path_to_id'[p] # d]_vars

\* A folder holding a folder and a file below it was removed.
C4_Witness ==
    /\ lastOp.op = "remove_item"
    /\ Cardinality(lastOp.out.sub) >= 4

\* C5: remove_item for an item that is gone changes nothing and reports no
\* error, and so does cleanup_empty_parents for a parent that is gone.
C5_RemoveIdempotent ==
    /\ status # "error"
    /\ \A id \in 1..(nextId - 1) :
           ~TreeExists(tree, id) =>
               /\ RemoveItem(Idx, id) = Idx
               /\ CleanupEmptyParents(Idx, id) = Idx

\* A Delete-key batch called remove_item for an item an earlier call of the
\* batch had removed.
C5_Witness ==
    /\ lastOp.op = "handle_delete_key"
    /\ lastOp.out.stale

(***************************************************************************)
(* Properties of the filter, the walk and the dialogs.                     *)
(***************************************************************************)
\* The proper ancestors of a path, the root aside.
Ancestors(path) == {SubSeq(path, 1, k) : k \in 2..(Len(path) - 1)}

UnderSystemDir(path) == \E a \in Ancestors(path) : Name(a) \in system_dirs

HasHiddenPart(path) == \E k \in 1..Len(path) : StartsWithDot(path[k])

Blacklisted(path) == Lower(Suffix(path)) \in blacklisted_file_types

\* C6: no File of the index lies under a directory named in system_dirs,
\* whether a walk of a dropped directory reached it or it was dropped itself.
C6_NoneUnderSystemDir ==
    \A id \in DOMAIN file_items :
        IsFileNode(id) => ~UnderSystemDir(file_items[id].path)

\* C7: the walk of a dropped directory yields no file with a component that
\* starts with '.', the components above the file's name included.
C7_NoHiddenPartYielded ==
    \A f \in walked.yielded : ~HasHiddenPart(f)

\* C8: the walk visits no entry beneath a directory that _should_skip_path
\* excludes.
C8_ExcludedNeverOpened ==
    \A v \in walked.visited : \A a \in Ancestors(v) : ~ShouldSkipPath(a)

\* C9: a file with a blacklisted lower-cased extension is rejected in every
\* state, also with its extension in the allowed set or cached as 'yes'; no
\* dialog asks about such an extension, none is cached, a check of such a file
\* leaves the allowed set and the cache as they are, and no such file is in
\* the index.
C9_BlacklistAlwaysRejected ==
    /\ [](\A f \in Files :
              Blacklisted(f) =>
                  LET ext == Lower(Suffix(f))
                  IN  /\ IsValidFile(f, allowed_file_types, extension_decisions) = "reject"
                      /\ IsValidFile(f, allowed_file_types \cup {ext},
                                     MapPut(extension_decisions, ext, TRUE)) = "reject"
                      /\ ext \notin DOMAIN prompts
                      /\ ext \notin DOMAIN extension_decisions
                      /\ f \notin DOMAIN path_to_id)
    /\ [][(/\ lastOp'.op = "_process_dropped_items"
           /\ \A f \in lastOp'.arg : Blacklisted(f))
              => /\ lastOp'.out = <<>>
                 /\ UNCHANGED <<allowed_file_types, extension_decisions, prompts,
                                settings_file>>]_vars

\* With ".png" added to the allowed set in the open manager, a thread checked
\* the dropped /q/i.PNG and did not accept it.
C9_Witness ==
    /\ lastOp.op = "_process_dropped_items"
    /\ lastOp.arg = {<<"/", "q", "i.PNG">>}
    /\ lastOp.out = <<>>
    /\ ".png" \in allowed_file_types
    /\ manager.open
    /\ manager.listbox[Len(manager.listbox)] = ".png"

\* C10: no extension is asked about more than once in a session, whatever the
\* order in which handle_drop and the threads make their checks.
C10_OnePromptPerExtension ==
    \A ext \in DOMAIN prompts : prompts[ext] <= 1

(***************************************************************************)
(* Properties of the answers, the copy and the settings.                   *)
(***************************************************************************)
\* The thread (or handle_drop) whose dialog the step answered took the file.
Took(file_path) ==
    \/ /\ ui.pc = "prompt"
       /\ ui' # ui
       /\ ui.checks[ui.k].path = file_path
       /\ file_path \in walked'.yielded
    \/ \E w \in DOMAIN workers :
           /\ workers[w].pc = "prompt"
           /\ w \in DOMAIN workers'
           /\ workers'[w].pc = "scan"
           /\ workers'[w].files = Append(workers[w].files, file_path)

\* The thread (or handle_drop) whose dialog the step answered left the file.
Left(file_path) ==
    \/ /\ ui.pc = "prompt"
       /\ ui' # ui
       /\ ui.checks[ui.k].path = file_path
       /\ (file_path \in walked'.yielded) = (file_path \in walked.yielded)
    \/ \E w \in DOMAIN workers :
           /\ workers[w].pc = "prompt"
           /\ w \in DOMAIN workers'
           /\ workers'[w].pc = "scan"
           /\ workers'[w].files = workers[w].files

\* C11: an answer to the dialog is cached under the lower-cased extension; on
\* 'yes' the extension joins the allowed set, the settings file holds the new
\* set and the two toggles, and the file is taken; on 'no' the allowed set and
\* the settings file stay as they were and the file is left.
C11_AnswerCachedAndSaved ==
    [][lastOp'.op = "_is_valid_file" =>
          LET file_path == lastOp'.arg
              ext_lower == Lower(Suffix(file_path))
              answer    == lastOp'.out[1]
          IN  /\ ext_lower \in DOMAIN extension_decisions'
              /\ extension_decisions'[ext_lower] = answer
              /\ \A e \in DOMAIN extension_decisions :
                     e # ext_lower =>
                         /\ e \in DOMAIN extension_decisions'
                         /\ extension_decisions'[e] = extension_decisions[e]
              /\ IF answer
                 THEN /\ allowed_file_types' = allowed_file_types \cup {ext_lower}
                      /\ settings_file'.exists
                      /\ settings_file'.allowed_file_types = allowed_file_types'
                      /\ settings_file'.xml_format = xml_format_enabled'
                      /\ settings_file'.filepath = filepath_enabled'
                      /\ Took(file_path)
                 ELSE /\ allowed_file_types' = allowed_file_types
                      /\ settings_file' = settings_file
                      /\ Left(file_path)]_vars

\* The user said 'yes' for /q/n.foo: ".foo" is cached, allowed and saved.
C11_Witness ==
    /\ lastOp.op = "_is_valid_file"
    /\ lastOp.arg = <<"/", "q", "n.foo">>
    /\ lastOp.out = <<TRUE>>
    /\ ".foo" \in allowed_file_types
    /\ settings_file.exists
    /\ ".foo" \in settings_file.allowed_file_types

\* The batch a thread of _process_and_copy has just read.
Copied == lastOp.op = "_process_and_copy"

\* The paths of a list are in the order of sorted(..., key=str(p).lower()).
InKeyOrder(paths) ==
    \A i, j \in 1..Len(paths) :
        i < j => ~StrLess(Lower(PathStr(paths[j])), Lower(PathStr(paths[i])))

\* C12: every copy reads its files in the case-insensitive order of their
\* absolute paths, whatever drops and removals came before it.
C12_ReadInKeyOrder ==
    Copied => InKeyOrder(lastOp.out.result.read)

\* The wrapped blocks a result holds, in the order of the join.
Blocks(r) ==
    r.py_contents \o r.ts_contents \o r.css_contents \o r.lua_contents
        \o (IF r.readme_content # "" THEN <<r.readme_content>> ELSE <<>>)

\* How many times sub occurs in s.
RECURSIVE CountOf(_, _, _)
CountOf(sub, s, i) ==
    IF i + Len(sub) - 1 > Len(s) THEN 0
    ELSE (IF SubSeq(s, i, i + Len(sub) - 1) = sub THEN 1 ELSE 0) + CountOf(sub, s, i + 1)

\* C13: the copied text holds one wrapped block per file read, as many as
\* file_count says; in the XML format each block opens with <file_info>.
C13_OneBlockPerFile ==
    Copied =>
        /\ Len(Blocks(lastOp.out.result)) = lastOp.out.result.file_count
        /\ lastOp.out.xml =>
               CountOf("<file_info>", lastOp.out.combined_content, 1)
                   = lastOp.out.result.file_count

\* The place of a file's group in the copied text; 5 is the readme.
GroupOf(path) ==
    IF Lower(Name(path)) = "readme.md" THEN 5
    ELSE IF Lower(Suffix(path)) \in {".ts", ".tsx"} THEN 2
    ELSE IF Lower(Suffix(path)) = ".css" THEN 3
    ELSE IF Lower(Suffix(path)) = ".lua" THEN 4
    ELSE 1

\* The files of one group, in the order they were read.
InGroup(read, g) == SelectSeq(read, LAMBDA path : GroupOf(path) = g)

\* The files whose blocks the text holds, in the order of their blocks: the
\* four groups, then the README.md read last.
BlockOrder(read) ==
    InGroup(read, 1) \o InGroup(read, 2) \o InGroup(read, 3) \o InGroup(read, 4)
        \o (IF InGroup(read, 5) = <<>> THEN <<>>
            ELSE <<InGroup(read, 5)[Len(InGroup(read, 5))]>>)

\* C14: the copied text is the blocks of the files read, group after group in
\* the fixed order, in input order inside a group, the README.md block last,
\* with one blank line between two blocks and none for an empty group.
C14_GroupedInFixedOrder ==
    Copied =>
        LET o     == lastOp.out
            order == BlockOrder(o.result.read)
        IN  o.combined_content =
                JoinStr([i \in 1..Len(order) |->
                            FormatContent(order[i], ReadOf(order[i]).text,
                                          GetFileTypeText(order[i]), o.xml, o.filepath)],
                        "\n\n")

\* A copy of README.md, l.lua and a.py, read in that order: two groups are
\* empty and the group read later comes first.
C14_Witness ==
    /\ Copied
    /\ lastOp.out.result.read
           = << <<"/", "p", "README.md">>, <<"/", "p", "l.lua">>, <<"/", "p", "a.py">> >>
    /\ clipboard = lastOp.out.combined_content

\* The flat-list revision's thread has just read its batch.
CopiedFlat == lastOp.op = "flat._process_and_copy"

\* A file of the batch that cannot be opened or decoded.
Unreadable(path) == IsFile(path) /\ ReadOf(path).kind # "text"

\* What the logger holds for an unreadable file: a warning when it cannot be
\* decoded, an error when it cannot be opened.
LogOf(path) ==
    [level |-> IF ReadOf(path).kind = "binary" THEN "warning" ELSE "error",
     path |-> path]

\* The flat-list revision opens the .py files and the README.md only.
FlatReads(path) == Suffix(path) = ".py" \/ Lower(Name(path)) = "readme.md"

\* The contents and the counts of two results are the same.
SameCopy(r, g) ==
    /\ r.py_contents = g.py_contents
    /\ r.readme_content = g.readme_content
    /\ r.file_count = g.file_count
    /\ r.total_characters = g.total_characters
    /\ r.read = g.read

\* C15: a batch with unreadable files completes with the contents, the file
\* count and the character total of the batch without them, and the log
\* holds one entry for each unreadable file, in both revisions.
C15_UnreadableSkipped ==
    /\ Copied =>
           LET o    == lastOp.out
               bad  == SelectSeq(lastOp.arg, Unreadable)
               good == ProcessFiles(SelectSeq(lastOp.arg, LAMBDA p : ~Unreadable(p)),
                                    o.xml, o.filepath)
           IN  /\ SameCopy(o.result, good)
               /\ o.result.ts_contents = good.ts_contents
               /\ o.result.css_contents = good.css_contents
               /\ o.result.lua_contents = good.lua_contents
               /\ o.combined_content = CombinedContent(good)
               /\ o.result.log = [i \in 1..Len(bad) |-> LogOf(bad[i])]
    /\ CopiedFlat =>
           LET o    == lastOp.out
               bad  == SelectSeq(lastOp.arg, LAMBDA p : Unreadable(p) /\ FlatReads(p))
               good == ProcessFilesFlat(SelectSeq(lastOp.arg, LAMBDA p : ~Unreadable(p)))
           IN  /\ SameCopy(o.result, good)
               /\ o.combined_content = FlatCombinedContent(good)
               /\ o.result.log = [i \in 1..Len(bad) |-> LogOf(bad[i])]

\* A copy of a.py, the undecodable u.py and b.ts: two files counted, one
\* warning, and the text on the clipboard.
C15_Witness ==
    /\ Copied
    /\ lastOp.arg = << <<"/", "p", "a.py">>, <<"/", "p", "u.py">>,
                       <<"/", "p", "s", "t", "b.ts">> >>
    /\ lastOp.out.result.file_count = 2
    /\ lastOp.out.result.log = <<[level |-> "warning", path |-> <<"/", "p", "u.py">>]>>
    /\ clipboard = lastOp.out.combined_content
    /\ clipboard # ""

\* The sum of the raw lengths of the files of a list.
RECURSIVE RawLength(_)
RawLength(read) ==
    IF Len(read) = 0 THEN 0
    ELSE Len(ReadOf(Head(read)).text) + RawLength(Tail(read))

\* C16: the character total is the sum of the raw lengths of the files read,
\* README.md among them, in the tree revision and in the flat-list revision.
C16_TotalIsRawLength ==
    (Copied \/ CopiedFlat) =>
        lastOp.out.result.total_characters = RawLength(lastOp.out.result.read)

(***************************************************************************)
(* Properties of the settings.                                             *)
(***************************************************************************)
\* The settings in memory.
InMemory ==
    [xml_format |-> xml_format_enabled, filepath |-> filepath_enabled,
     allowed_file_types |-> allowed_file_types]

\* C17: the settings one run saves when it closes are the settings the next
\* run has in memory after its load_settings: both toggles and the allowed
\* set, also when the user had removed a default extension.
C17_RoundTrip ==
    lastOp.op = "on_closing" => InMemory = lastOp.out

\* load_settings failed on the file: there is none, or json.load raised, or
\* the loop over a value that is no list raised.
LoadFailed(file) == ~file.exists \/ ~file.parses \/ ~file.iterable

\* C18: a run that starts on a settings file it cannot load has exactly the
\* defaults in memory: both toggles on and the built-in allowed set.
C18_DefaultsOnFailure ==
    (lastOp.op = "__init__" /\ LoadFailed(settings_file)) =>
        InMemory = [xml_format |-> TRUE, filepath |-> TRUE,
                    allowed_file_types |-> default_file_types]

\* The step is the return of an operation that changed a toggle or the
\* allowed set: a toggle, a 'yes' answer, or the manager's add, remove or reset.
ChangedSettings ==
    \/ lastOp'.op \in {"toggle_xml_format", "toggle_filepath", "reset_defaults"}
    \/ lastOp'.op \in {"add_new_type", "remove_selected_types"}
           /\ allowed_file_types' # allowed_file_types
    \/ lastOp'.op = "_is_valid_file" /\ lastOp'.out = <<TRUE>>

\* C19: when an operation that changed a toggle or the allowed set returns,
\* the settings file holds the values in memory; on_closing leaves in the file
\* the values the closing run had in memory.
C19_SavedOnEveryChange ==
    [][/\ ChangedSettings =>
              settings_file' = Settings(xml_format_enabled', filepath_enabled',
                                        allowed_file_types')
       /\ lastOp'.op = "on_closing" =>
              settings_file' = Settings(xml_format_enabled, filepath_enabled,
                                        allowed_file_types)]_vars

(***************************************************************************)
(* Properties of repeated drops.                                           *)
(***************************************************************************)
\* No two nodes of the tree, and no two entries of file_items, hold one path.
OneNodePerPath ==
    /\ \A a, b \in DOMAIN tree : tree[a].path = tree[b].path => a = b
    /\ \A a, b \in DOMAIN file_items : file_items[a].path = file_items[b].path => a = b

\* C20: under any interleaving of drops, threads and callbacks the tree has
\* at most one node per path, and a drop that names tracked paths only starts
\* no thread, counts nothing and leaves the index as it was.
C20_NoPathTrackedTwice ==
    /\ []OneNodePerPath
    /\ [][(lastOp'.op = "handle_drop" /\ lastOp'.arg \subseteq DOMAIN path_to_id) =>
              /\ UNCHANGED <<indexVars, ui, workers, after_queue>>
              /\ status' = "warning"]_vars

\* Two drops whose threads overlapped, one of them of the folder /q, each
\* handed h.py to add_path_to_tree: the second call found it tracked and the
\* tree holds it once.
C20_Witness ==
    /\ lastOp.op = "add_path_to_tree"
    /\ lastOp.arg = <<"/", "q", ".cfg", "h.py">>
    /\ lastOp.out = <<"tracked">>
    /\ drops = 2
    /\ <<"/", "q", "n.foo">> \in walked.visited
    /\ Cardinality({id \in DOMAIN tree : tree[id].path = lastOp.arg}) = 1

(***************************************************************************)
(* Properties of the threads.                                              *)
(***************************************************************************)
\* C21: when a thread of _process_and_copy has written a text that is not
\* empty, the clipboard holds that text and nothing else, whatever other
\* copies run beside it; a thread with nothing to copy leaves the clipboard
\* as it was.
C21_ClipboardHoldsBatch ==
    /\ [](Copied /\ lastOp.out.combined_content # "" =>
              clipboard = lastOp.out.combined_content)
    /\ [][(lastOp'.op = "_process_and_copy" /\ lastOp'.out.combined_content = "") =>
              clipboard' = clipboard]_vars

\* The steps of a drop thread: its run up to a dialog or to its end, and the
\* answer to its dialog.
DropThreadStep == lastOp'.op \in {"_process_dropped_items", "_is_valid_file"}

\* The add_path_to_tree callbacks of the queue, in order.
QueuedAdds(queue) ==
    LET adds == SelectSeq(queue, LAMBDA cb : cb.fn = "add_path_to_tree")
    IN  [i \in 1..Len(adds) |-> adds[i].arg]

\* C22: a step of a drop thread leaves the tree, file_items and path_to_id
\* as they are; the files a finished thread found are queued as
\* add_path_to_tree callbacks, and the index changes only when the event
\* loop runs such a callback, one path at a time.
C22_IndexOnEventLoop ==
    [][/\ DropThreadStep => UNCHANGED indexVars
       /\ (lastOp'.op = "_process_dropped_items" /\ Len(after_queue') > Len(after_queue)) =>
              QueuedAdds(after_queue') =
                  QueuedAdds(after_queue) \o SortedByKey(lastOp'.out)
       /\ indexVars' # indexVars =>
              /\ lastOp'.op = "add_path_to_tree"
              /\ Len(after_queue) > 0
              /\ Head(after_queue) = [fn |-> "add_path_to_tree", arg |-> lastOp'.arg]
              /\ after_queue' = Tail(after_queue)]_vars

\* A thread has ended and queued a file that the index does not hold yet.
C22_Witness ==
    /\ lastOp.op = "_process_dropped_items"
    /\ Len(lastOp.out) > 0
    /\ \E i \in 1..Len(after_queue) :
           /\ after_queue[i].fn = "add_path_to_tree"
           /\ after_queue[i].arg \notin DOMAIN path_to_id
    /\ DOMAIN tree = {}

\* The step is taken by a thread: a drop thread that scans or gets the answer
\* to its own dialog, or a copy thread.
ThreadStep ==
    \/ lastOp'.op \in {"_process_dropped_items", "_process_and_copy", "clipboard_clear"}
    \/ /\ lastOp'.op = "_is_valid_file"
       /\ \E w \in DOMAIN workers : workers[w].pc = "prompt" /\ workers'[w] # workers[w]

\* C23: a step of a drop thread or of a copy thread writes neither the cache
\* of the answers, nor the allowed set, nor the settings file, nor the
\* clipboard.
C23_ThreadsOnlyCompute ==
    [][ThreadStep =>
           UNCHANGED <<extension_decisions, allowed_file_types, settings_file,
                       clipboard>>]_vars

\* The copy threads that have started and not yet queued their last callbacks.
CopiesInFlight == Len(copier) + Len(appends)

\* C24: no second copy thread starts while one runs, by the button or by
\* Ctrl-C, and the buttons are disabled whenever a copy thread runs.
C24_OneCopyInFlight ==
    /\ CopiesInFlight <= 1
    /\ CopiesInFlight > 0 => buttons = "disabled"

\* No copy thread runs, none of their callbacks waits, the buttons are enabled.
CopiesDone ==
    /\ CopiesInFlight = 0
    /\ \A i \in 1..Len(after_queue) : after_queue[i].fn # "toggle_buttons"
    /\ buttons = "normal"

\* C25: while the threads run on and the event loop runs its callbacks, every
\* copy that has started ends and the buttons are enabled again, whether it
\* copied something, found nothing to copy, or raised in process_files or at
\* the clipboard.
C25_CopyEndsAndEnables == (CopiesInFlight > 0) ~> CopiesDone

\* A copy whose thread raised has ended and its callback has enabled the
\* buttons.
C25_Witness ==
    /\ lastOp = Op("toggle_buttons", "normal")
    /\ copies = 1
    /\ status = "error"
    /\ CopiesDone

\* No drop is being processed: handle_drop has returned, no thread runs and
\* no insertion waits in the queue of root.after.
DropsCompleted ==
    /\ ui.pc = "idle"
    /\ DOMAIN workers = {}
    /\ \A i \in 1..Len(after_queue) : after_queue[i].fn # "add_path_to_tree"

\* The files beneath a directory that the walk does not skip and the filter
\* accepts with the allowed set and the answers of this state.
EligibleBeneath(directory) ==
    { f \in Files :
        /\ IsPrefix(directory, f)
        /\ ~ShouldSkipPath(f)
        /\ IsValidFile(f, allowed_file_types, extension_decisions) = "accept" }

IndexEmpty == DOMAIN tree = {} /\ DOMAIN file_items = {} /\ DOMAIN path_to_id = {}

\* C27: a confirmed clear_all leaves the tree, file_items and path_to_id
\* empty, and they are still empty after the next step unless that step is a
\* new drop, also when the step delivers an insertion of a batch that started
\* before the clear; a declined clear_all changes none of the three.
C27_ClearedStaysEmpty ==
    [][/\ lastOp' = Op("clear_all", TRUE) => IndexEmpty'
       /\ (lastOp = Op("clear_all", TRUE) /\ lastOp'.op # "handle_drop") => IndexEmpty'
       /\ (lastOp' = Op("clear_all", FALSE) /\ lastOp' # lastOp) =>
              UNCHANGED <<tree, file_items, path_to_id>>]_vars

\* The items above an item of the tree, up to the top.
RECURSIVE AncestorItems(_, _)
AncestorItems(t, id) ==
    IF id \notin DOMAIN t \/ t[id].parent = 0 THEN {}
    ELSE {t[id].parent} \cup AncestorItems(t, t[id].parent)

\* C28: remove_item(id) takes away id, what is below it, and the items above
\* it that it leaves without a child, and nothing else: an item that has gone
\* and was not below id is above it and none of its children is left, and
\* every item that is left keeps its place in the tree, its file_items entry
\* and its path_to_id entry; so an item above id with another child is kept.
C28_RemoveItemFrame ==
    [][lastOp'.op = "remove_item" =>
          LET id      == lastOp'.arg[1]
              removed == {id} \cup SubtreeBelow(tree, id)
          IN  \A x \in DOMAIN tree \ removed :
                  IF x \in DOMAIN tree'
                  THEN /\ tree'[x] = tree[x]
                       /\ x \in DOMAIN file_items =>
                              x \in DOMAIN file_items' /\ file_items'[x] = file_items[x]
                       /\ \A path \in DOMAIN path_to_id :
                              path_to_id[path] = x =>
                                  path \in DOMAIN path_to_id' /\ path_to_id'[path] = x
                  ELSE /\ x \in AncestorItems(tree, id)
                       /\ TreeChildren(tree, x) \cap DOMAIN tree' = {}]_vars

\* remove_item has pruned a folder it left empty and kept the folders above
\* it that hold something else.
C28_Witness ==
    /\ lastOp.op = "remove_item"
    /\ lastOp.out.pruned # {}
    /\ Cardinality(DOMAIN tree) >= 3
    /\ \E x \in DOMAIN tree : Cardinality(TreeChildren(tree, x)) >= 1

\* C29: a file that _is_valid_file accepts without asking is README.md or has
\* its lower-cased extension in the allowed set at that moment: the files a
\* thread of _process_dropped_items adds in one scan, which shows no dialog
\* for them, are such files.
C29_SilentAcceptIsAllowed ==
    [][\A w \in DOMAIN workers :
           (/\ workers[w].pc = "scan"
            /\ lastOp'.op = "_process_dropped_items"
            /\ (w \notin DOMAIN workers' \/ workers'[w] # workers[w])) =>
               \A k \in (Len(workers[w].files) + 1)..Len(lastOp'.out) :
                   \/ Lower(Name(lastOp'.out[k])) = "readme.md"
                   \/ Lower(Suffix(lastOp'.out[k])) \in allowed_file_types]_vars

\* The lines of the manager's listbox.
ListboxEntries == {manager.listbox[i] : i \in 1..Len(manager.listbox)}

\* C30: while the manager is open, under add_new_type, remove_selected_types
\* and reset_defaults in any order, the listbox shows the members of the
\* allowed set and each of them once; reset_defaults makes the set the
\* default set; and add_new_type of a type that is in the set changes neither
\* the set nor the listbox.
C30_ListboxShowsAllowedSet ==
    /\ [](manager.open =>
              /\ ListboxEntries = allowed_file_types
              /\ Len(manager.listbox) = Cardinality(allowed_file_types))
    /\ [][lastOp'.op = "reset_defaults" =>
              allowed_file_types' = default_file_types]_vars
    /\ [][\A text \in ManagerEntryTexts :
              (/\ AddNewType(text)
               /\ \/ Lower(Strip(text)) \in allowed_file_types
                  \/ "." \o Lower(Strip(text)) \in allowed_file_types) =>
                  UNCHANGED <<allowed_file_types, manager>>]_vars

\* A type was removed and another one added at the end of the listbox, which
\* is no longer in sorted order.
C30_Witness ==
    /\ manager.open
    /\ lastOp.op = "add_new_type"
    /\ ".lua" \notin allowed_file_types
    /\ ".foo" \in allowed_file_types
    /\ manager.listbox # SortedStrings(allowed_file_types)

===========================================================================
